---- MODULE Spec2Model ----
(***************************************************************************)
(* A model of the fixed-income analytics engine of                         *)
(* src/backend/financial_calculator.py (FinancialCalculator).              *)
(*                                                                         *)
(* Numbers.  The engine computes in binary floating point (Python float).  *)
(* The model computes in decimal floating point: a number is a triple      *)
(* <<sign, mantissa, exponent>>, the mantissa a little-endian sequence of  *)
(* at most Precision limbs of four decimal digits (limbs in 0..Base-1)     *)
(* with no zero limb at either end, and the value is                       *)
(* sign * mantissa * Base^exponent.  The representation of a value is      *)
(* unique, so equal numbers are equal values.  Every operation rounds its  *)
(* exact result to Precision limbs, to nearest with ties to even, as a     *)
(* floating-point operation does.  x ** t raises OverflowError above the   *)
(* binary64 range and yields 0 below it; infinities and NaN are not        *)
(* modelled.                                                               *)
(***************************************************************************)
EXTENDS Integers, Sequences, FiniteSets, TLC

Base == 10000
Precision == 4

Max2(a, b) == IF a >= b THEN a ELSE b
Min2(a, b) == IF a <= b THEN a ELSE b

---------------------------------------------------------------------------
(* Magnitudes *)

RECURSIVE Trim(_)
Trim(m) == IF Len(m) > 0 /\ m[Len(m)] = 0 THEN Trim(SubSeq(m, 1, Len(m) - 1)) ELSE m

Limb(m, i) == IF i >= 1 /\ i <= Len(m) THEN m[i] ELSE 0

RECURSIVE MagCmpFrom(_, _, _)
MagCmpFrom(a, b, i) ==
    IF i = 0 THEN 0
    ELSE IF Limb(a, i) < Limb(b, i) THEN -1
    ELSE IF Limb(a, i) > Limb(b, i) THEN 1
    ELSE MagCmpFrom(a, b, i - 1)

MagCmp(a, b) == MagCmpFrom(a, b, Max2(Len(a), Len(b)))

RECURSIVE MagAddFrom(_, _, _, _)
MagAddFrom(a, b, i, c) ==
    IF i > Max2(Len(a), Len(b))
    THEN (IF c = 0 THEN <<>> ELSE <<c>>)
    ELSE LET s == Limb(a, i) + Limb(b, i) + c
         IN  <<s % Base>> \o MagAddFrom(a, b, i + 1, s \div Base)

MagAdd(a, b) == MagAddFrom(a, b, 1, 0)

\* a - b for a >= b
RECURSIVE MagSubFrom(_, _, _, _)
MagSubFrom(a, b, i, c) ==
    IF i > Len(a) THEN <<>>
    ELSE LET s == Limb(a, i) - Limb(b, i) - c
         IN  IF s < 0 THEN <<s + Base>> \o MagSubFrom(a, b, i + 1, 1)
                      ELSE <<s>> \o MagSubFrom(a, b, i + 1, 0)

MagSub(a, b) == Trim(MagSubFrom(a, b, 1, 0))

\* a * k for a limb-sized k
RECURSIVE MagMulSmallFrom(_, _, _, _)
MagMulSmallFrom(a, k, i, c) ==
    IF i > Len(a)
    THEN (IF c = 0 THEN <<>> ELSE <<c>>)
    ELSE LET s == a[i] * k + c
         IN  <<s % Base>> \o MagMulSmallFrom(a, k, i + 1, s \div Base)

MagMulSmall(a, k) == IF k = 0 THEN <<>> ELSE MagMulSmallFrom(a, k, 1, 0)

RECURSIVE MagOfNat(_)
MagOfNat(n) == IF n = 0 THEN <<>> ELSE <<n % Base>> \o MagOfNat(n \div Base)

Zeros(n) == [i \in 1..n |-> 0]

\* a * Base^n
MagShl(a, n) == IF Len(a) = 0 THEN <<>> ELSE Zeros(n) \o a

\* a \div Base^n
MagShr(a, n) == IF Len(a) <= n THEN <<>> ELSE SubSeq(a, n + 1, Len(a))

RECURSIVE MagMulFrom(_, _, _)
MagMulFrom(a, b, i) ==
    IF i > Len(b) THEN <<>>
    ELSE MagAdd(MagShl(MagMulSmall(a, b[i]), i - 1), MagMulFrom(a, b, i + 1))

MagMul(a, b) == IF Len(a) = 0 \/ Len(b) = 0 THEN <<>> ELSE MagMulFrom(a, b, 1)

\* Long division (Knuth's algorithm D) of a by a divisor b whose most
\* significant limb is at least Base \div 2.
\* the quotient digit: the estimate from the two leading limbs of r, lowered
\* until b * d <= r
RECURSIVE QFix(_, _, _)
QFix(r, b, d) == IF MagCmp(MagMulSmall(b, d), r) > 0 THEN QFix(r, b, d - 1) ELSE d

QDigit(r, b) ==
    LET n   == Len(b)
        est == (Limb(r, n + 1) * Base + Limb(r, n)) \div b[n]
    IN  QFix(r, b, Min2(est, Base - 1))

\* limb i of a downwards, r the running remainder, q the quotient so far
RECURSIVE MagDivFrom(_, _, _, _, _)
MagDivFrom(a, b, i, r, q) ==
    IF i = 0 THEN <<q, r>>
    ELSE LET r1 == Trim(<<a[i]>> \o r)
             d  == QDigit(r1, b)
             r2 == MagSub(r1, MagMulSmall(b, d))
         IN  IF MagCmp(r2, b) < 0
             THEN MagDivFrom(a, b, i - 1, r2, <<d>> \o q)
             ELSE <<q, r>>

\* <<quotient, remainder>> of a by b # 0, and the divisor they refer to:
\* both are scaled to bring the leading limb of the divisor to Base \div 2
MagDivNormalised(an, bn) == <<MagDivFrom(an, bn, Len(an), <<>>, <<>>), bn>>

MagQuotRem(a, b) ==
    LET f == Base \div (b[Len(b)] + 1)
    IN  MagDivNormalised(MagMulSmall(a, f), MagMulSmall(b, f))

\* the quotient of qrb rounded on its remainder: exact when nothing remains
MagRounded(qrb) ==
    IF Len(qrb[1][2]) = 0 THEN Trim(qrb[1][1])
    ELSE IF MagCmp(MagMulSmall(qrb[1][2], 2), qrb[2]) >= 0
    THEN MagAdd(Trim(qrb[1][1]), <<1>>)
    ELSE Trim(qrb[1][1])

\* a / b for b # 0, rounded to the nearest integer, halves away from zero
MagDivRound(a, b) == MagRounded(MagQuotRem(a, b))

\* a \div b for b # 0
MagDivFloor(a, b) == Trim(MagQuotRem(a, b)[1][1])

\* a \div 2
MagHalf(a) == Trim([i \in 1..Len(a) |-> ((Limb(a, i + 1) % 2) * Base + a[i]) \div 2])

\* the integer square root of a natural number below Base * Base
RECURSIVE NatSqrtFrom(_, _)
NatSqrtFrom(n, r) ==
    LET r2 == (r + n \div r) \div 2
    IN  IF r2 >= r THEN r ELSE NatSqrtFrom(n, r2)

NatSqrt(n) == IF n = 0 THEN 0 ELSE NatSqrtFrom(n, Base)

\* the integer square root of a, by Newton's iteration from an r >= sqrt(a)
RECURSIVE MagSqrtFrom(_, _)
MagSqrtFrom(a, r) ==
    LET r2 == MagHalf(MagAdd(r, MagDivFloor(a, r)))
    IN  IF MagCmp(r2, r) >= 0 THEN r ELSE MagSqrtFrom(a, r2)

\* the first guess is taken from the two leading limbs (the leading limb of
\* a single one); Base is a square
MagSqrt(a) ==
    LET n == Len(a)
    IN  IF n = 1 THEN MagSqrtFrom(a, MagOfNat(NatSqrt(a[1]) + 1))
        ELSE IF n % 2 = 0
        THEN MagSqrtFrom(a, MagShl(MagOfNat(NatSqrt(a[n] * Base + a[n - 1]) + 1),
                                   (n - 2) \div 2))
        ELSE MagSqrtFrom(a, MagShl(MagOfNat((NatSqrt(a[n] * Base + a[n - 1]) + 1)
                                            * NatSqrt(Base)),
                                   (n - 3) \div 2))

---------------------------------------------------------------------------
(* Floating-point numbers (the model of Python's float) *)

FZero == <<0, <<>>, 0>>

\* the number of zero limbs at the low end of m
RECURSIVE LowZeros(_, _)
LowZeros(m, i) == IF i <= Len(m) /\ m[i] = 0 THEN LowZeros(m, i + 1) ELSE i - 1

\* high + 1 when the limbs dropped exceed half a unit of high (cmp > 0) or
\* are half a unit (cmp = 0) and high is odd, else high
RoundUp(high, cmp) ==
    IF cmp > 0 \/ (cmp = 0 /\ Limb(high, 1) % 2 = 1) THEN MagAdd(high, <<1>>) ELSE high

\* m without its k least significant limbs, k >= 1, rounded to nearest, ties
\* to even
RoundAt(m, k) ==
    RoundUp(MagShr(m, k),
            MagCmp(Trim(SubSeq(m, 1, Min2(k, Len(m)))), MagShl(<<Base \div 2>>, k - 1)))

\* m rounded to its Precision most significant limbs: <<limbs, limbs dropped>>
RoundMag(m) ==
    IF Len(m) <= Precision THEN <<m, 0>>
    ELSE <<RoundAt(m, Len(m) - Precision), Len(m) - Precision>>

\* the number sign * m * Base^e in its unique representation
CanonStripped(sign, m, e, z) == <<sign, MagShr(m, z), e + z>>

CanonRounded(sign, r, e) ==
    IF Len(r[1]) = 0 THEN FZero
    ELSE CanonStripped(sign, r[1], e + r[2], LowZeros(r[1], 1))

Canon(sign, m, e) ==
    IF Len(m) = 0 THEN FZero ELSE CanonRounded(sign, RoundMag(Trim(m)), e)

\* float(n) for an integer n
FInt(n) ==
    Canon(IF n >= 0 THEN 1 ELSE -1, MagOfNat(IF n >= 0 THEN n ELSE -n), 0)

FNeg(a) == <<-a[1], a[2], a[3]>>

FAbs(a) == <<a[1] * a[1], a[2], a[3]>>

\* the position above the most significant limb
Top(a) == a[3] + Len(a[2])

\* sa * ma + sb * mb, times Base^e
FAddAligned(sa, ma, sb, mb, e, cmp) ==
    IF sa = sb THEN Canon(sa, MagAdd(ma, mb), e)
    ELSE Canon(IF cmp > 0 THEN sa ELSE sb,
               IF cmp > 0 THEN MagSub(ma, mb) ELSE MagSub(mb, ma), e)

FAddMags(sa, ma, sb, mb, e) == FAddAligned(sa, ma, sb, mb, e, MagCmp(ma, mb))

\* a + b
FAdd(a, b) ==
    IF a[1] = 0 THEN b
    ELSE IF b[1] = 0 THEN a
    ELSE IF Top(a) - Top(b) > Precision + 1 THEN a
    ELSE IF Top(b) - Top(a) > Precision + 1 THEN b
    ELSE LET e0 == Min2(a[3], b[3])
         IN  FAddMags(a[1], MagShl(a[2], a[3] - e0), b[1], MagShl(b[2], b[3] - e0), e0)

FSub(a, b) == FAdd(a, FNeg(b))

\* -1, 0 or 1 as a < b, a = b, a > b
FCmp(a, b) ==
    IF a[1] # b[1] THEN (IF a[1] < b[1] THEN -1 ELSE 1)
    ELSE IF a[1] = 0 THEN 0
    ELSE IF Top(a) # Top(b) THEN (IF Top(a) < Top(b) THEN -a[1] ELSE a[1])
    ELSE LET e0 == Min2(a[3], b[3])
         IN  a[1] * MagCmp(MagShl(a[2], a[3] - e0), MagShl(b[2], b[3] - e0))

FLt(a, b) == FCmp(a, b) < 0
FLe(a, b) == FCmp(a, b) <= 0

\* a * b
FMul(a, b) ==
    IF a[1] = 0 \/ b[1] = 0 THEN FZero
    ELSE Canon(a[1] * b[1], MagMul(a[2], b[2]), a[3] + b[3])

\* a / b for b # 0
FDiv(a, b) ==
    IF b[1] # 0 /\ a[1] = 0 THEN FZero
    ELSE LET k == Precision + 1 + Len(b[2]) - Len(a[2])
         IN  Canon(a[1] * b[1], MagDivRound(MagShl(a[2], k), b[2]), a[3] - b[3] - k)

\* the float nearest to the decimal n / d, d > 0 (float(Decimal("620.92")))
FRatio(n, d) == FDiv(FInt(n), FInt(d))

RECURSIVE NatOfMag(_, _)
NatOfMag(m, i) == IF i > Len(m) THEN 0 ELSE m[i] + Base * NatOfMag(m, i + 1)

\* int(a): the integer part, truncated toward zero
FTrunc(a) ==
    IF a[3] >= 0 THEN a[1] * NatOfMag(MagShl(a[2], a[3]), 1)
    ELSE a[1] * NatOfMag(MagShr(a[2], -a[3]), 1)

\* a is a whole number
FIsInt(a) == a[3] >= 0

\* x ** t for an integer t >= 0, by repeated squaring
RECURSIVE FPowNat(_, _)
FPowNat(x, t) ==
    IF t = 0 THEN FInt(1)
    ELSE LET h == FPowNat(x, t \div 2)
         IN  IF h[1] = 0 THEN FZero
             ELSE IF t % 2 = 0 THEN FMul(h, h)
             ELSE FMul(FMul(h, h), x)

\* sqrt(a) for a >= 0: the root of the mantissa widened to 2 * (Precision + 1)
\* limbs, or one more for an even exponent
FSqrt(a) ==
    IF a[1] = 0 THEN FZero
    ELSE LET s0 == 2 * (Precision + 1) - Len(a[2])
             k  == s0 + ((a[3] - s0) % 2)
         IN  Canon(1, MagSqrt(MagShl(a[2], k)), (a[3] - k) \div 2)

\* floor(log10(|a|)) for a # 0
Digits(n) == IF n >= 1000 THEN 4 ELSE IF n >= 100 THEN 3 ELSE IF n >= 10 THEN 2 ELSE 1
Exp10(a) == 4 * (Top(a) - 1) + Digits(a[2][Len(a[2])]) - 1

\* a float result confined to the binary64 range: OverflowError above it,
\* zero below it
Ranged(v) ==
    IF v[1] = 0 THEN <<"ok", v>>
    ELSE IF Exp10(v) > 308 THEN <<"OverflowError", FZero>>
    ELSE IF Exp10(v) < -324 THEN <<"ok", FZero>>
    ELSE <<"ok", v>>

\* a ** (1 / 4), a ** (1 / 2) or a as n is odd, twice an odd number, or a
\* multiple of 4
Root2(sq, n) == IF sq[1] = 0 \/ n % 2 = 0 THEN sq ELSE FSqrt(sq)
Root4(a, n) == IF n % 4 = 0 THEN a ELSE Root2(FSqrt(a), n)

Signed(neg, v) == IF neg THEN FNeg(v) ELSE v

\* r, marked complex for a negative base under a fractional exponent
FPowTagged(x, n, r) ==
    IF x[1] < 0 /\ n % 4 # 0
    THEN <<IF r[1] = "ok" THEN "complex" ELSE r[1], r[2]>>
    ELSE r

\* pw is |x| ** (n / 4); 1 / pw for a negative exponent, which overflows
\* when pw is zero; the sign of an odd power of a negative base
FPowSigned(x, p4, n, pw) ==
    IF p4 < 0 /\ pw[1] = 0 THEN <<"OverflowError", FZero>>
    ELSE FPowTagged(x, n,
            Ranged(Signed(x[1] < 0 /\ n % 4 = 0 /\ (n \div 4) % 2 = 1,
                          IF p4 < 0 THEN FDiv(FInt(1), pw) ELSE pw)))

\* rt is |x| ** (1 / 4), |x| ** (1 / 2) or |x|, never zero
FPowRooted(x, p4, n, rt) ==
    IF rt[1] = 0 THEN <<"ok", FZero>>
    ELSE FPowSigned(x, p4, n,
            FPowNat(rt, IF n % 4 = 0 THEN n \div 4 ELSE IF n % 2 = 0 THEN n \div 2 ELSE n))

FPowAbs(x, p4, n) == FPowRooted(x, p4, n, Root4(FAbs(x), n))

\* x ** (p4 / 4) for an integer p4
FPowQuarters(x, p4) ==
    IF p4 = 0 THEN <<"ok", FInt(1)>>
    ELSE IF x[1] = 0
    THEN (IF p4 < 0 THEN <<"ZeroDivisionError", FZero>> ELSE <<"ok", FZero>>)
    ELSE FPowAbs(x, p4, IF p4 < 0 THEN -p4 ELSE p4)

FPowScaled(x, q) ==
    IF FIsInt(q) THEN FPowQuarters(x, FTrunc(q)) ELSE <<"unsupported", FZero>>

\* x ** p for a float exponent p that is a multiple of 1/4: <<"ok", value>>,
\* or the exception raised, or <<"complex", |value|>> for the complex result
\* of a negative base under a fractional exponent
FPow(x, p) == FPowScaled(x, FMul(p, FInt(4)))

\* round(a, 4): to four digits after the point, ties to the even neighbour
Round4(a) ==
    IF -1 - a[3] <= 0 THEN a ELSE Canon(a[1], RoundAt(a[2], -1 - a[3]), -1)

---------------------------------------------------------------------------
(* Values of the program *)

\* a Decimal is a pair <<numerator, denominator>>, denominator > 0
Dec(n) == <<n, 1>>
DecLe0(d) == d[1] <= 0

\* float(d) for a Decimal d
FOver(a, d) == IF d = 1 THEN a ELSE FDiv(a, FInt(d))
Float(d) == FOver(FInt(d[1]), d[2])

\* the outcome of a call: a value, None, or an exception raised
Pending    == [tag |-> "pending", v |-> FZero, exc |-> ""]
None       == [tag |-> "None", v |-> FZero, exc |-> ""]
Value(x)   == [tag |-> "value", v |-> x, exc |-> ""]
Raise(e)   == [tag |-> "raise", v |-> FZero, exc |-> e]

Frequencies == {"MONTHLY", "QUARTERLY", "SEMI_ANNUAL", "ANNUAL", "ZERO_COUPON"}

get_frequency_multiplier(frequency) ==
    CASE frequency = "MONTHLY"     -> 12
      [] frequency = "QUARTERLY"   -> 4
      [] frequency = "SEMI_ANNUAL" -> 2
      [] frequency = "ANNUAL"      -> 1
      [] frequency = "ZERO_COUPON" -> 0

---------------------------------------------------------------------------
(* Calendar dates (datetime.date) *)

Date(y, m, d) == [year |-> y, month |-> m, day |-> d]

IsLeap(y) == (y % 4 = 0 /\ y % 100 # 0) \/ y % 400 = 0

DaysInMonth(y, m) ==
    IF m = 2 THEN (IF IsLeap(y) THEN 29 ELSE 28)
    ELSE IF m \in {4, 6, 9, 11} THEN 30 ELSE 31

\* date(y, m, d) is a date; the constructor raises ValueError otherwise
ValidDate(y, m, d) ==
    y \in 1..9999 /\ m \in 1..12 /\ d >= 1 /\ d <= DaysInMonth(y, m)

\* a < b
DateLt(a, b) ==
    \/ a.year < b.year
    \/ a.year = b.year /\ a.month < b.month
    \/ a.year = b.year /\ a.month = b.month /\ a.day < b.day

\* the days of the months of a common year before month m
DaysBeforeMonthTable == <<0, 31, 59, 90, 120, 151, 181, 212, 243, 273, 304, 334>>

\* the days of year y before month m, without the leap day
DaysBeforeMonthNoLeap(y, m) == DaysBeforeMonthTable[m]

\* the days of year y before month m
DaysBeforeMonth(y, m) ==
    DaysBeforeMonthTable[m] + (IF m > 2 /\ IsLeap(y) THEN 1 ELSE 0)

\* the days before January 1st of year y
DaysBeforeYear(y) ==
    LET p == y - 1 IN p * 365 + p \div 4 - p \div 100 + p \div 400

\* d.toordinal()
ToOrdinal(d) == DaysBeforeYear(d.year) + DaysBeforeMonth(d.year, d.month) + d.day

\* the difference taken the other way round
DateSubReversed(a, b) == ToOrdinal(b) - ToOrdinal(a)

\* (a - b).days
DateSub(a, b) == ToOrdinal(a) - ToOrdinal(b)

\* the calendar day after d, and the one before it
Tomorrow(d) ==
    IF d.day < DaysInMonth(d.year, d.month) THEN Date(d.year, d.month, d.day + 1)
    ELSE IF d.month < 12 THEN Date(d.year, d.month + 1, 1)
    ELSE Date(d.year + 1, 1, 1)

Yesterday(d) ==
    IF d.day > 1 THEN Date(d.year, d.month, d.day - 1)
    ELSE IF d.month > 1 THEN Date(d.year, d.month - 1, DaysInMonth(d.year, d.month - 1))
    ELSE Date(d.year - 1, 12, 31)

---------------------------------------------------------------------------
(* calculate_ytm *)

VARIABLES
    pc,             \* where the running call stands
    args,           \* the arguments of the running call
    result,         \* the outcome of the call
    ytm_guess,      \* calculate_ytm: the periodic yield guess
    iteration,      \* calculate_ytm: Newton-Raphson iterations started
    t,              \* calculate_ytm: the period of the inner loop
    pv,             \* calculate_ytm: present value accumulated so far
    pv_derivative,  \* calculate_ytm: its derivative accumulated so far
    current_date,   \* generate_coupon_dates: the date of the backward walk
    coupon_dates,   \* generate_coupon_dates: the dates collected so far
    running,        \* the thread that runs, and whether it was ever switched out
    suspended,      \* the frames of the threads that do not run
    db              \* the rows of the database of the service layer

vars == <<pc, args, result, ytm_guess, iteration, t, pv, pv_derivative,
          current_date, coupon_dates, running, suspended, db>>

\* the locals of each function
ytmLocals == <<ytm_guess, iteration, t, pv, pv_derivative>>
genLocals == <<current_date, coupon_dates>>
scheduler == <<running, suspended>>
notYtm == <<genLocals, scheduler, db>>
notDayCount == <<ytmLocals, genLocals, scheduler, db>>
notGen == <<ytmLocals, scheduler, db>>

\* one thread makes the call and no other thread exists
SingleCall ==
    /\ running = [thread |-> 0, preempted |-> FALSE]
    /\ suspended = <<>>

\* the engine is called without a database
NoDatabase == db = <<>>

NoDate == Date(0, 0, 0)

DefaultMaxIterations == 100
\* 0.0001
Tolerance == <<1, <<1>>, -1>>

freq_multiplier == get_frequency_multiplier(args.frequency)
coupon_payment ==
    FDiv(FMul(Float(args.face_value), FDiv(Float(args.coupon_rate), FInt(100))),
         FInt(freq_multiplier))
periods == FMul(Float(args.years_to_maturity), FInt(freq_multiplier))
price == Float(args.current_price)
face == Float(args.face_value)

\* the closed form with the exponent years instead of 1 / years
ZeroCouponYtmYearsExponent ==
    IF DecLe0(args.current_price) \/ DecLe0(args.years_to_maturity) THEN None
    ELSE LET pw == FPow(FDiv(face, price), Float(args.years_to_maturity))
         IN  IF pw[1] = "ok"
             THEN Value(FMul(FSub(pw[2], FInt(1)), FInt(100)))
             ELSE Raise(pw[1])

\* lines 65-70: the zero-coupon closed form
ZeroCouponYtm ==
    IF DecLe0(args.current_price) \/ DecLe0(args.years_to_maturity) THEN None
    ELSE LET pw == FPow(FDiv(face, price),
                        FDiv(FInt(1), Float(args.years_to_maturity)))
         IN  IF pw[1] = "ok"
             THEN Value(FMul(FSub(pw[2], FInt(1)), FInt(100)))
             ELSE IF pw[1] = "complex" THEN Raise("InvalidOperation")
             ELSE Raise(pw[1])

\* line 79: the initial guess, <<"ok", guess>> or the exception raised
InitialGuess ==
    LET half == FDiv(FAdd(face, price), FInt(2))
    IN  IF periods[1] = 0 \/ half[1] = 0 THEN <<"ZeroDivisionError", FZero>>
        ELSE <<"ok", FDiv(FAdd(coupon_payment, FDiv(FSub(face, price), periods)), half)>>

\* lines 64-79
YtmCall ==
    /\ pc = "call"
    /\ IF freq_multiplier = 0
       THEN /\ result' = ZeroCouponYtm
            /\ pc' = "done"
            /\ UNCHANGED ytm_guess
       ELSE IF InitialGuess[1] = "ok"
       THEN /\ ytm_guess' = InitialGuess[2]
            /\ pc' = "head"
            /\ UNCHANGED result
       ELSE /\ result' = Raise(InitialGuess[1])
            /\ pc' = "done"
            /\ UNCHANGED ytm_guess
    /\ UNCHANGED <<args, iteration, t, pv, pv_derivative>>
    /\ UNCHANGED notYtm

\* line 81: the loop enters its next iteration (lines 83-84)
LoopContinues(n, max_iterations) == n < max_iterations

YtmIterate ==
    /\ pc = "head"
    /\ LoopContinues(iteration, args.max_iterations)
    /\ iteration' = iteration + 1
    /\ pv' = FZero
    /\ pv_derivative' = FZero
    /\ t' = 1
    /\ pc' = "coupons"
    /\ UNCHANGED <<args, ytm_guess, result>>
    /\ UNCHANGED notYtm

\* line 111: the loop is exhausted
YtmNotConverged ==
    /\ pc = "head"
    /\ ~LoopContinues(iteration, args.max_iterations)
    /\ result' = None
    /\ pc' = "done"
    /\ UNCHANGED <<args, ytm_guess, iteration, t, pv, pv_derivative>>
    /\ UNCHANGED notYtm

\* lines 87-89 for the coupon c of period n under the discount factors d1
\* and d2: <<"ok", pv term, derivative term>> or the exception raised
CouponQuotients(n, c, d1, d2) ==
    IF d1[1] # "ok" THEN <<d1[1], FZero, FZero>>
    ELSE IF d1[2][1] = 0 THEN <<"ZeroDivisionError", FZero, FZero>>
    ELSE IF d2[1] # "ok" THEN <<d2[1], FZero, FZero>>
    ELSE IF d2[2][1] = 0 THEN <<"ZeroDivisionError", FZero, FZero>>
    ELSE <<"ok", FDiv(c, d1[2]), FDiv(FMul(FInt(-n), c), d2[2])>>

\* lines 87-88 with the discount factors (base ** t) and (base ** (t + 1))
CouponFactors(n, base) ==
    CouponQuotients(n, coupon_payment, FPow(base, FInt(n)), FPow(base, FInt(n + 1)))

\* lines 87-88 for period n at guess y
CouponTerm(y, n) == CouponFactors(n, FAdd(FInt(1), y))

\* lines 87-89: the term is added to the totals, or its exception ends the call
Accumulate(term) ==
    IF term[1] = "ok"
    THEN /\ pv' = FAdd(pv, term[2])
         /\ pv_derivative' = FAdd(pv_derivative, term[3])
         /\ t' = t + 1
         /\ UNCHANGED <<pc, result>>
    ELSE /\ result' = Raise(term[1])
         /\ pc' = "done"
         /\ UNCHANGED <<t, pv, pv_derivative>>

\* lines 86-89: one pass of the inner loop
YtmCoupon ==
    /\ pc = "coupons"
    /\ t <= FTrunc(periods)
    /\ Accumulate(CouponTerm(ytm_guess, t))
    /\ UNCHANGED <<args, ytm_guess, iteration>>
    /\ UNCHANGED notYtm

\* lines 92-94 for the face value f at n periods under the discount factors
\* d1 and d2: <<"ok", pv, pv_derivative>> with the face value added,
\* <<"complex", pv, pv_derivative>> when the discount factor is complex (pv
\* and pv_derivative then hold the real parts for a zero face value), or the
\* exception raised
FaceQuotients(pv0, dpv0, n, f, d1, d2) ==
    IF d1[1] \notin {"ok", "complex"} THEN <<d1[1], FZero, FZero>>
    ELSE IF d1[2][1] = 0 THEN <<"ZeroDivisionError", FZero, FZero>>
    ELSE IF d2[1] \notin {"ok", "complex"} THEN <<d2[1], FZero, FZero>>
    ELSE IF d2[2][1] = 0 THEN <<"ZeroDivisionError", FZero, FZero>>
    ELSE IF d1[1] = "complex"
    THEN IF f[1] = 0 THEN <<"complex", pv0, dpv0>>
         ELSE IF FLe(Tolerance, FMul(FDiv(f, d1[2]), FRatio(7, 10)))
         THEN <<"TypeError", FZero, FZero>>
         ELSE <<"unsupported", FZero, FZero>>
    ELSE <<"ok", FAdd(pv0, FDiv(f, d1[2])),
                 FAdd(dpv0, FDiv(FMul(FNeg(n), f), d2[2]))>>

\* lines 93-94 with the discount factors (base ** n) and (base ** (n + 1))
FaceFactors(pv0, dpv0, n, base) ==
    FaceQuotients(pv0, dpv0, n, face, FPow(base, n), FPow(base, FAdd(n, FInt(1))))

\* the face value discounted over the whole periods only
FaceTermWholePeriods(y, pv0, dpv0) ==
    FaceFactors(pv0, dpv0, FInt(FTrunc(periods)), FAdd(FInt(1), y))

\* lines 92-94 at guess y on the totals pv0 and dpv0 of the coupons
FaceTerm(y, pv0, dpv0) == FaceFactors(pv0, dpv0, periods, FAdd(FInt(1), y))

\* line 98: the convergence test
Converged(price_diff) == FLt(FAbs(price_diff), Tolerance)

\* the yield per period returned as a percentage, not annualised
AnnualYtmPerPeriod(y) == Round4(FMul(y, FInt(100)))

\* lines 100-101: the annual percentage returned
AnnualYtm(y) == Round4(FMul(FMul(y, FInt(freq_multiplier)), FInt(100)))

\* the update without its guard
NewtonUpdateUnguarded(y, price_diff, dpv) == FSub(y, FDiv(price_diff, dpv))

\* lines 106-109: the Newton-Raphson update with its guard
NewtonUpdate(y, price_diff, dpv) ==
    LET y1 == FSub(y, FDiv(price_diff, dpv))
    IN  IF FLt(y1, FRatio(-99, 100)) THEN FRatio(1, 100) ELSE y1

\* the step with the derivative guard ahead of the convergence test
NewtonStepGuardFirst(y, ft) ==
    IF ft[1] \notin {"ok", "complex"} THEN <<Raise(ft[1]), y>>
    ELSE IF ft[3][1] = 0 THEN <<None, y>>
    ELSE IF Converged(FSub(ft[2], price)) THEN <<Value(AnnualYtm(y)), y>>
    ELSE IF ft[1] = "complex" THEN <<Raise("TypeError"), y>>
    ELSE <<Pending, NewtonUpdate(y, FSub(ft[2], price), ft[3])>>

\* lines 96-109 on the totals of lines 92-94: <<outcome, next guess>>, the
\* outcome Pending when the loop goes on
NewtonStep(y, ft) ==
    IF ft[1] \notin {"ok", "complex"} THEN <<Raise(ft[1]), y>>
    ELSE IF Converged(FSub(ft[2], price)) THEN <<Value(AnnualYtm(y)), y>>
    ELSE IF ft[3][1] = 0 THEN <<None, y>>
    ELSE IF ft[1] = "complex" THEN <<Raise("TypeError"), y>>
    ELSE <<Pending, NewtonUpdate(y, FSub(ft[2], price), ft[3])>>

\* the outcome of the step ends the call, or the loop goes on at the next guess
Advance(step) ==
    /\ result' = step[1]
    /\ ytm_guess' = step[2]
    /\ pc' = IF step[1] = Pending THEN "head" ELSE "done"

\* lines 91-109: the end of one iteration
YtmNewton ==
    /\ pc = "coupons"
    /\ t > FTrunc(periods)
    /\ Advance(NewtonStep(ytm_guess, FaceTerm(ytm_guess, pv, pv_derivative)))
    /\ UNCHANGED <<args, iteration, t, pv, pv_derivative>>
    /\ UNCHANGED notYtm

---------------------------------------------------------------------------
(* The calls explored *)

MaxIter == 2

YtmArgs(fv, cr, fq, ym, cp, mi) ==
    [face_value |-> fv, coupon_rate |-> cr, frequency |-> fq,
     years_to_maturity |-> ym, current_price |-> cp, max_iterations |-> mi]

\* every combination of small and degenerate arguments, under a small
\* iteration limit
YtmGrid ==
    { YtmArgs(Dec(fv), Dec(cr), fq, <<yq, 4>>, Dec(cp), mi) :
        fv \in {0, 100}, cr \in {0, 5}, fq \in Frequencies,
        yq \in {-4, 0, 1, 2, 4}, cp \in {-100, 0, 95, 300},
        mi \in 0..MaxIter }

\* reference calls under the default iteration limit
YtmReference ==
    { YtmArgs(Dec(1000), Dec(5), "SEMI_ANNUAL", Dec(10), Dec(950), DefaultMaxIterations),
      YtmArgs(Dec(100), Dec(0), "ANNUAL", Dec(1), Dec(300), DefaultMaxIterations),
      YtmArgs(Dec(100), Dec(0), "ANNUAL", Dec(1), Dec(500), DefaultMaxIterations),
      YtmArgs(Dec(100), Dec(5), "ANNUAL", Dec(1), Dec(-5), DefaultMaxIterations),
      YtmArgs(Dec(100), Dec(5), "SEMI_ANNUAL", <<5, 4>>, Dec(500), DefaultMaxIterations),
      YtmArgs(Dec(0), Dec(0), "ANNUAL", Dec(1), <<5, 100000>>, DefaultMaxIterations),
      YtmArgs(Dec(1000), Dec(0), "ZERO_COUPON", Dec(4), <<62092, 100>>, DefaultMaxIterations) }

InitYtm ==
    /\ args \in YtmGrid \cup YtmReference
    /\ pc = "call"
    /\ ytm_guess = FZero
    /\ iteration = 0
    /\ t = 0
    /\ pv = FZero
    /\ pv_derivative = FZero
    /\ result = Pending
    /\ current_date = NoDate
    /\ coupon_dates = <<>>
    /\ SingleCall
    /\ NoDatabase

NextYtm == YtmCall \/ YtmIterate \/ YtmNotConverged \/ YtmCoupon \/ YtmNewton

SpecYtm == InitYtm /\ [][NextYtm]_vars

---------------------------------------------------------------------------
(* Properties of calculate_ytm *)

CouponBearing == freq_multiplier # 0

\* the present value at the periodic yield y of the coupons of the periods
\* lo..hi, summed pairwise
RECURSIVE CouponsValue(_, _, _)
CouponsValue(y, lo, hi) ==
    IF lo > hi THEN FZero
    ELSE IF lo = hi
    THEN FDiv(coupon_payment, FPow(FAdd(FInt(1), y), FInt(lo))[2])
    ELSE FAdd(CouponsValue(y, lo, (lo + hi) \div 2),
              CouponsValue(y, (lo + hi) \div 2 + 1, hi))

\* the present value of the bond at the periodic yield y: the coupons of the
\* whole periods 1..int(periods) and the face value at periods
PresentValue(y) ==
    FAdd(CouponsValue(y, 1, FTrunc(periods)),
         FDiv(face, FPow(FAdd(FInt(1), y), periods)[2]))

\* C1: calculate_ytm ends in a value or in None, never in an exception
C1_NeverRaises == pc = "done" => result.tag \in {"value", "None"}

\* C2: for a coupon-bearing bond the loop evaluates the present value at
\* most max_iterations times, and a call whose loop was entered and that
\* returned no value ended in None, not in an exception
C2_LoopEndsInNone ==
    CouponBearing =>
        /\ iteration <= args.max_iterations
        /\ (pc = "done" /\ iteration >= 1 /\ result.tag # "value") => result = None

\* the part of C2 the code keeps: the iteration bound, and None (not the
\* last guess) when the loop is exhausted
C2_IterationBound ==
    CouponBearing =>
        /\ iteration <= args.max_iterations
        /\ (pc = "done" /\ result.tag = "value") => iteration >= 1

\* C3: a coupon-bearing call returns a value only from an iteration whose
\* present value at the current guess is within the tolerance of the price,
\* the value is that guess annualised in percent and rounded to 4 digits,
\* and an iteration that meets the tolerance returns it whatever the
\* derivative is
C3_ReturnsConvergedGuess ==
    [][CouponBearing =>
        /\ (result.tag # "value" /\ result'.tag = "value") =>
              /\ pc = "coupons"
              /\ Converged(FSub(PresentValue(ytm_guess), price))
              /\ result'.v = Round4(FMul(FMul(ytm_guess, FInt(freq_multiplier)), FInt(100)))
              /\ ytm_guess' = ytm_guess
        /\ (/\ pc = "coupons" /\ t > FTrunc(periods)
            /\ FaceTerm(ytm_guess, pv, pv_derivative)[1] = "ok"
            /\ Converged(FSub(PresentValue(ytm_guess), price))) =>
              result'.tag = "value"]_vars

C3_Witness ==
    /\ CouponBearing /\ pc = "done" /\ result.tag = "value" /\ iteration > 1

C5Args ==
    YtmArgs(Dec(1000), Dec(5), "SEMI_ANNUAL", Dec(10), Dec(950), DefaultMaxIterations)

C5_BelowParConverges ==
    (args = C5Args /\ pc = "done") => (result.tag = "value" /\ FLt(FInt(5), result.v))

C5_Witness == args = C5Args /\ pc = "done" /\ iteration >= 1

---------------------------------------------------------------------------
(* calculate_days_between *)

Conventions == {"ACT_360", "ACT_365", "THIRTY_360", "ACT_ACT"}

\* the start day left as it is
ThirtyD1Unclamped(start_date) == start_date.day

\* line 39: the start day of the 30/360 count
ThirtyD1(start_date) == Min2(start_date.day, 30)

\* the end day clamped whatever the start day is
ThirtyD2AlwaysClamped(d1, end_date) == Min2(end_date.day, 30)

\* line 40: the end day of the 30/360 count
ThirtyD2(d1, end_date) == IF d1 = 30 THEN Min2(end_date.day, 30) ELSE end_date.day

\* lines 39-41: the 30/360 day count
Thirty360Days(start_date, end_date) ==
    LET d1 == ThirtyD1(start_date)
        d2 == ThirtyD2(d1, end_date)
    IN  (end_date.year - start_date.year) * 360
        + (end_date.month - start_date.month) * 30 + (d2 - d1)

\* lines 27-43: <<numerator days, denominator days>>
calculate_days_between(start_date, end_date, convention) ==
    IF convention = "ACT_360" THEN Value(<<DateSub(end_date, start_date), 360>>)
    ELSE IF convention = "ACT_365" THEN Value(<<DateSub(end_date, start_date), 365>>)
    ELSE IF convention = "ACT_ACT" THEN Value(<<DateSub(end_date, start_date), 365>>)
    ELSE IF convention = "THIRTY_360"
    THEN Value(<<Thirty360Days(start_date, end_date), 360>>)
    ELSE Value(<<0, 365>>)

\* a call of calculate_days_between and its return
DayCountCall ==
    /\ pc = "daycount"
    /\ result' = calculate_days_between(args.start_date, args.end_date, args.convention)
    /\ pc' = "done"
    /\ UNCHANGED <<args, notDayCount>>

(* The calls explored *)

MaxDays == 60

\* the date n calendar days after d (before it, for a negative n), NoDate
\* when that leaves the years 1..9999
RECURSIVE AddDays(_, _)
AddDays(d, n) ==
    IF n = 0 THEN d
    ELSE LET next == IF n > 0 THEN Tomorrow(d) ELSE Yesterday(d)
         IN  IF next.year \in 1..9999
             THEN AddDays(next, IF n > 0 THEN n - 1 ELSE n + 1)
             ELSE NoDate

\* start dates at month ends, around the leap days of 2024 and 2000, around
\* the missing leap day of 2100, and at a year end
DayCountStarts ==
    { Date(2024, 1, 31), Date(2023, 12, 30), Date(2024, 2, 29), Date(2023, 1, 31),
      Date(2100, 2, 1), Date(2000, 2, 1), Date(2024, 3, 30), Date(2023, 11, 15) }

\* the declared conventions and a value that is none of them
ConventionArgs == Conventions \cup {"UNKNOWN"}

InitDayCount ==
    /\ \E start_date \in DayCountStarts, n \in (-MaxDays)..MaxDays,
          convention \in ConventionArgs :
          args = [start_date |-> start_date, end_date |-> AddDays(start_date, n),
                  convention |-> convention]
    /\ pc = "daycount"
    /\ result = Pending
    /\ ytm_guess = FZero
    /\ iteration = 0
    /\ t = 0
    /\ pv = FZero
    /\ pv_derivative = FZero
    /\ current_date = NoDate
    /\ coupon_dates = <<>>
    /\ SingleCall
    /\ NoDatabase

NextDayCount == DayCountCall

SpecDayCount == InitDayCount /\ [][NextDayCount]_vars

(* Properties of calculate_days_between *)

DayCountDone == pc = "done" /\ "convention" \in DOMAIN args

\* C6: under Actual/360, Actual/365 and Actual/Actual the numerator is the
\* number of calendar days from the start date to the end date (walking
\* that many days from the start date, leap days included, ends on the end
\* date) and the denominator is 360, 365 and 365 respectively.
C6_ActualDays ==
    (DayCountDone /\ args.convention \in {"ACT_360", "ACT_365", "ACT_ACT"}) =>
        /\ result.tag = "value"
        /\ AddDays(args.start_date, result.v[1]) = args.end_date
        /\ result.v[2] = (IF args.convention = "ACT_360" THEN 360 ELSE 365)

\* a count from before a leap day to after it has been returned
C6_Witness ==
    /\ DayCountDone
    /\ args.convention = "ACT_ACT"
    /\ DateLt(args.start_date, Date(2024, 2, 29))
    /\ DateLt(Date(2024, 2, 29), args.end_date)
    /\ result.tag = "value"

\* C7: under Thirty/360 the numerator is
\* 360 * (year difference) + 30 * (month difference) + (d2 - d1) and the
\* denominator 360, where d1 is the start day capped at 30 and d2 is the end
\* day capped at 30 when d1 came out as 30, the end day itself otherwise.
C7_Thirty360 ==
    (DayCountDone /\ args.convention = "THIRTY_360") =>
        LET sd == args.start_date
            ed == args.end_date
            d1 == IF sd.day > 30 THEN 30 ELSE sd.day
            d2 == IF d1 = 30 /\ ed.day > 30 THEN 30 ELSE ed.day
        IN  result = Value(<<360 * (ed.year - sd.year) + 30 * (ed.month - sd.month)
                             + (d2 - d1), 360>>)

\* a 30/360 count with an end day of 31 and a start day below 30, which
\* leaves the end day as it is, has been returned
C7_Witness ==
    /\ DayCountDone
    /\ args.convention = "THIRTY_360"
    /\ args.start_date.day < 30
    /\ args.end_date.day = 31
    /\ result.tag = "value"

C8Args ==
    [start_date |-> Date(2024, 1, 31), end_date |-> Date(2024, 2, 28),
     convention |-> "THIRTY_360"]

\* C8 as stated: from 2024-01-31 to 2024-02-28 under Thirty/360 the count is
\* numerator 30 over denominator 360.
C8_Jan31ToFeb28Is30 ==
    (pc = "done" /\ args = C8Args) => result = Value(<<30, 360>>)

\* C8: from 2024-01-31 to 2024-02-28 under Thirty/360 the count is numerator
\* 28 over denominator 360: the start day 31 is capped at 30 and the end day
\* 28, below 30, stays 28.
C8_Jan31ToFeb28Is28 ==
    (pc = "done" /\ args = C8Args) => result = Value(<<28, 360>>)

C8_Witness == pc = "done" /\ args = C8Args /\ result.tag = "value"

\* C9: a convention that is none of the four fails with InvalidConvention.
C9_UnknownConventionFails ==
    (DayCountDone /\ args.convention \notin Conventions) =>
        result = Raise("InvalidConvention")

---------------------------------------------------------------------------
(* generate_coupon_dates *)

\* line 213
months_between == 12 \div freq_multiplier

\* lines 226-228: the month brought back into 1..12, a year taken per turn
RECURSIVE WrapMonth(_, _)
WrapMonth(year, month) ==
    IF month < 1 THEN WrapMonth(year - 1, month + 12) ELSE <<year, month>>

\* the day replaced by the last day of the month
MoveBackLastDay(d, months) ==
    LET ym == WrapMonth(d.year, d.month - months)
    IN  IF ValidDate(ym[1], ym[2], d.day) THEN Value(Date(ym[1], ym[2], d.day))
        ELSE IF ValidDate(ym[1], ym[2], 28)
        THEN Value(Date(ym[1], ym[2], DaysInMonth(ym[1], ym[2])))
        ELSE Raise("ValueError")

\* lines 222-234: the date one payment interval before d, its day replaced
\* by 28 when the month has no such day; the second constructor call is not
\* guarded, so its ValueError leaves the function
MoveBack(d, months) ==
    LET ym == WrapMonth(d.year, d.month - months)
    IN  IF ValidDate(ym[1], ym[2], d.day) THEN Value(Date(ym[1], ym[2], d.day))
        ELSE IF ValidDate(ym[1], ym[2], 28) THEN Value(Date(ym[1], ym[2], 28))
        ELSE Raise("ValueError")

\* the reverse of a sequence
Reverse(s) == [i \in 1..Len(s) |-> s[Len(s) + 1 - i]]

\* the list returned as it was collected
ReturnedUnreversed(dates) == dates

\* lines 236-237: the list returned, reversed
Returned(dates) == Reverse(dates)

\* no date is returned for a zero-coupon bond
ZeroCouponDatesNone(maturity_date) == <<>>

\* line 211: the list returned for a zero-coupon bond
ZeroCouponDates(maturity_date) == <<maturity_date>>

\* the walk also goes on at the issue date itself
WalkContinuesToIssue(cur, issue_date) == ~DateLt(cur, issue_date)

\* line 217: the loop condition current_date > issue_date
WalkContinues(cur, issue_date) == DateLt(issue_date, cur)

\* a date is collected only when it is after start_from
EmittedAfterStart(cur, start_from) == start_from = NoDate \/ DateLt(start_from, cur)

\* line 218: the date is collected (start_from None is NoDate)
Emitted(cur, start_from) == start_from = NoDate \/ ~DateLt(cur, start_from)

\* lines 209-216: the zero-coupon return, or the start of the backward walk
GenCall ==
    /\ pc = "gen"
    /\ IF freq_multiplier = 0
       THEN /\ result' = Value(ZeroCouponDates(args.maturity_date))
            /\ pc' = "done"
            /\ UNCHANGED genLocals
       ELSE /\ coupon_dates' = <<>>
            /\ current_date' = args.maturity_date
            /\ pc' = "walk"
            /\ UNCHANGED result
    /\ UNCHANGED <<args, notGen>>

\* lines 217-234: one turn of the loop
GenStep ==
    /\ pc = "walk"
    /\ WalkContinues(current_date, args.issue_date)
    /\ coupon_dates' =
          IF Emitted(current_date, args.start_from)
          THEN Append(coupon_dates, current_date)
          ELSE coupon_dates
    /\ LET back == MoveBack(current_date, months_between)
       IN  IF back.tag = "value"
           THEN /\ current_date' = back.v
                /\ UNCHANGED <<pc, result>>
           ELSE /\ result' = back
                /\ pc' = "done"
                /\ UNCHANGED current_date
    /\ UNCHANGED <<args, notGen>>

\* lines 217, 236-237: the loop ends and the list is returned
GenReturn ==
    /\ pc = "walk"
    /\ ~WalkContinues(current_date, args.issue_date)
    /\ result' = Value(Returned(coupon_dates))
    /\ pc' = "done"
    /\ UNCHANGED <<args, genLocals, notGen>>

(* The calls explored *)

\* issue dates before, between and after the maturity dates
IssueDates ==
    { Date(2022, 11, 30), Date(2024, 1, 31), Date(2024, 8, 31), Date(2026, 1, 1) }

\* maturity dates on days 29, 30 and 31, which earlier months may lack, and
\* on a day every month has
MaturityDates ==
    { Date(2025, 5, 31), Date(2024, 8, 31), Date(2025, 3, 30), Date(2024, 2, 29),
      Date(2025, 1, 15) }

\* start_from: None, a date inside the schedules, a date of the monthly
\* schedules, a date after them
StartFroms == { NoDate, Date(2024, 6, 1), Date(2024, 7, 15), Date(2030, 1, 1) }

GenArgs(issue_date, maturity_date, frequency, start_from) ==
    [issue_date |-> issue_date, maturity_date |-> maturity_date,
     frequency |-> frequency, start_from |-> start_from]

GenGrid ==
    { GenArgs(issue_date, maturity_date, frequency, start_from) :
        issue_date \in IssueDates, maturity_date \in MaturityDates,
        frequency \in Frequencies, start_from \in StartFroms }

\* annual bonds issued and maturing on the same month and day, whole years
\* apart, the day being a leap day for some
GenReference ==
    { GenArgs(issue_date, maturity_date, "ANNUAL", start_from) :
        issue_date \in { Date(2020, 1, 1), Date(2020, 2, 29), Date(2024, 1, 1) },
        maturity_date \in { Date(2025, 1, 1), Date(2024, 2, 29), Date(2028, 2, 29) },
        start_from \in { NoDate, Date(2023, 1, 1) } }

\* bonds of the first year of the calendar, issued on its first day or later
GenYearOne ==
    { GenArgs(issue_date, Date(1, 6, 15), frequency, NoDate) :
        issue_date \in { Date(1, 1, 1), Date(1, 3, 15) }, frequency \in Frequencies }

InitGen ==
    /\ args \in GenGrid \cup GenReference \cup GenYearOne
    /\ pc = "gen"
    /\ result = Pending
    /\ ytm_guess = FZero
    /\ iteration = 0
    /\ t = 0
    /\ pv = FZero
    /\ pv_derivative = FZero
    /\ current_date = NoDate
    /\ coupon_dates = <<>>
    /\ SingleCall
    /\ NoDatabase

NextGen == GenCall \/ GenStep \/ GenReturn

SpecGen == InitGen /\ [][NextGen]_vars

(* Properties of generate_coupon_dates *)

\* lines 216-237 without start_from: the whole walk, from the current date
\* and the dates collected so far of w back to the issue date
RECURSIVE BackwardWalk(_, _, _)
BackwardWalk(w, issue_date, months) ==
    IF ~WalkContinues(w.current_date, issue_date) THEN Value(Returned(w.coupon_dates))
    ELSE LET back == MoveBack(w.current_date, months)
         IN  IF back.tag = "value"
             THEN BackwardWalk([current_date |-> back.v,
                                coupon_dates |-> Append(w.coupon_dates, w.current_date)],
                               issue_date, months)
             ELSE back

\* the schedule of the same bond when no start_from is given
UnfilteredSchedule ==
    BackwardWalk([current_date |-> args.maturity_date, coupon_dates |-> <<>>],
                 args.issue_date, months_between)

GenReturned == pc = "done" /\ result.tag = "value"

OnOrAfterStart(d) == ~DateLt(d, args.start_from)

C11Args == GenArgs(Date(2020, 1, 1), Date(2025, 1, 1), "ANNUAL", NoDate)

\* C11: for a coupon-bearing frequency and no start_from, every returned
\* date is strictly after the issue date (so the issue date is never among
\* them) and not after the maturity date; when the maturity date is after
\* the issue date the last date is the maturity date; with ANNUAL frequency
\* and issue and maturity on the same month and day N >= 1 years apart there
\* are exactly N dates, and from 2020-01-01 to 2025-01-01 they are the five
\* dates 2021-01-01 .. 2025-01-01.
C11_AfterIssueUpToMaturity ==
    (GenReturned /\ CouponBearing /\ args.start_from = NoDate) =>
        LET n == Len(result.v)
            years == args.maturity_date.year - args.issue_date.year
        IN  /\ \A i \in 1..n :
                  /\ DateLt(args.issue_date, result.v[i])
                  /\ ~DateLt(args.maturity_date, result.v[i])
                  /\ result.v[i] # args.issue_date
            /\ DateLt(args.issue_date, args.maturity_date) =>
                  n >= 1 /\ result.v[n] = args.maturity_date
            /\ ( /\ args.frequency = "ANNUAL"
                 /\ args.issue_date.month = args.maturity_date.month
                 /\ args.issue_date.day = args.maturity_date.day
                 /\ years >= 1 ) => n = years
            /\ args = C11Args =>
                  result.v = [i \in 1..5 |-> Date(2020 + i, 1, 1)]

\* the annual schedule from 2020-01-01 to 2025-01-01 has been returned
C11_Witness == GenReturned /\ args = C11Args /\ Len(result.v) = 5

\* C12: with a start_from, the dates returned are exactly the dates of the
\* schedule without start_from that are on or after start_from, in the same
\* order: earlier dates are left out and a date equal to start_from is kept.
C12_FilteredSchedule ==
    (GenReturned /\ CouponBearing /\ args.start_from # NoDate) =>
        /\ UnfilteredSchedule.tag = "value"
        /\ result.v = SelectSeq(UnfilteredSchedule.v, OnOrAfterStart)

\* a schedule that begins at start_from itself and leaves out earlier dates
\* has been returned
C12_Witness ==
    /\ GenReturned
    /\ CouponBearing
    /\ args.start_from # NoDate
    /\ Len(result.v) >= 1
    /\ result.v[1] = args.start_from
    /\ Len(UnfilteredSchedule.v) > Len(result.v)

\* C13: when the maturity date is not after the issue date the result is
\* the empty sequence, for every frequency and every start_from.
C13_DegenerateIsEmpty ==
    (pc = "done" /\ ~DateLt(args.issue_date, args.maturity_date)) =>
        result = Value(<<>>)

\* C14: for ZERO_COUPON the result is exactly one date, the maturity date,
\* whatever the issue date and start_from are.
C14_ZeroCouponOneDate ==
    (pc = "done" /\ args.frequency = "ZERO_COUPON") =>
        result = Value(<<args.maturity_date>>)

\* a zero-coupon call whose maturity is not after its issue date and whose
\* start_from is after the maturity date has returned
C14_Witness ==
    /\ pc = "done"
    /\ args.frequency = "ZERO_COUPON"
    /\ ~DateLt(args.issue_date, args.maturity_date)
    /\ args.start_from # NoDate
    /\ DateLt(args.maturity_date, args.start_from)
    /\ result.tag = "value"

\* C10: the dates returned are in strictly ascending order and no date
\* occurs twice, also when a day was replaced by 28.
C10_StrictlyAscending ==
    (pc = "done" /\ result.tag = "value") =>
        \A i, j \in 1..Len(result.v) : i < j => DateLt(result.v[i], result.v[j])

\* a schedule with a date whose day was replaced by 28 has been returned
C10_Witness ==
    /\ pc = "done"
    /\ result.tag = "value"
    /\ Len(result.v) >= 3
    /\ args.maturity_date.day > 28
    /\ \E i \in 1..Len(result.v) : result.v[i].day = 28

\* the months from year 0 to the month of d
MonthsOf(d) == d.year * 12 + (d.month - 1)

\* the date of MonthsOf n and the day of d, the day 28 if the month has no
\* such day
MonthsBefore(d, n) ==
    Date(n \div 12, (n % 12) + 1,
         IF d.day <= DaysInMonth(n \div 12, (n % 12) + 1) THEN d.day ELSE 28)

\* C21: each step of the backward walk moves the current date back by
\* 12 / freq_multiplier months, the year wrapped, and keeps its day; a day
\* the month does not have becomes 28, also in a month of 29 or 30 days,
\* and from then on every earlier date of the walk has day 28.
C21_StepBack ==
    [][(pc = "walk" /\ pc' = "walk") =>
          /\ current_date' =
                MonthsBefore(current_date, MonthsOf(current_date) - 12 \div freq_multiplier)
          /\ current_date.day # args.maturity_date.day =>
                current_date.day = 28 /\ current_date'.day = 28]_vars

\* the walk of a bond maturing on a 31st stands on day 28 of a month of 30
\* days
C21_Witness ==
    /\ pc = "walk"
    /\ args.maturity_date.day = 31
    /\ current_date.day = 28
    /\ DaysInMonth(current_date.year, current_date.month) = 30

\* each step of the walk produces a date strictly before the current one
WalkStrictlyEarlier ==
    [][(pc = "walk" /\ pc' = "walk") => DateLt(current_date', current_date)]_vars

\* C22: for every issue date, maturity date and coupon-bearing frequency
\* the walk ends because its condition current_date > issue_date has become
\* false, and a list of dates is returned.
C22_WalkEndsAtIssue ==
    (pc = "done" /\ "start_from" \in DOMAIN args /\ CouponBearing) =>
        /\ result.tag = "value"
        /\ ~WalkContinues(current_date, args.issue_date)

\* the call is not left waiting at a step it can take
FairSpecGen == SpecGen /\ WF_vars(NextGen)

\* every call of generate_coupon_dates comes to its end
GenTerminates == <>(pc = "done")

---------------------------------------------------------------------------
(* calculate_accrued_interest *)

\* the accrued interest left unrounded
AccruedUnrounded(accrued) == accrued

\* line 267: round(accrued, 4)
AccruedRounded(accrued) == Round4(accrued)

\* lines 264-267 on the coupon of one period and the day count <<days, year>>
AccruedOver(payment, fm, dc) ==
    AccruedRounded(FMul(payment, FDiv(FInt(dc[1]), FDiv(FInt(dc[2]), FInt(fm)))))

\* lines 255-256: the coupon of one period
AccruedCoupon(face_value, coupon_rate, fm) ==
    FDiv(FMul(Float(face_value), FDiv(Float(coupon_rate), FInt(100))), FInt(fm))

\* lines 250-267
calculate_accrued_interest(face_value, coupon_rate, frequency, last_coupon_date, settlement_date, convention) ==
    IF get_frequency_multiplier(frequency) = 0 THEN FZero
    ELSE AccruedOver(AccruedCoupon(face_value, coupon_rate,
                                   get_frequency_multiplier(frequency)),
                     get_frequency_multiplier(frequency),
                     calculate_days_between(last_coupon_date, settlement_date,
                                            convention).v)

\* a call of calculate_accrued_interest and its return
AccruedCall ==
    /\ pc = "accrued"
    /\ result' = Value(calculate_accrued_interest(
                          args.face_value, args.coupon_rate, args.frequency,
                          args.last_coupon_date, args.settlement_date, args.convention))
    /\ pc' = "done"
    /\ UNCHANGED <<args, ytmLocals, genLocals, scheduler, db>>

(* The calls explored *)

MaxAccrualDays == 366

\* the date n >= 0 calendar days after d, month by month
RECURSIVE DatePlus(_, _)
DatePlus(d, n) ==
    IF d.day + n <= DaysInMonth(d.year, d.month) THEN Date(d.year, d.month, d.day + n)
    ELSE DatePlus(IF d.month = 12 THEN Date(d.year + 1, 1, 1)
                  ELSE Date(d.year, d.month + 1, 1),
                  n - (DaysInMonth(d.year, d.month) - d.day + 1))

AccruedArgs(fv, cr, fq, lc, sd, cv) ==
    [face_value |-> fv, coupon_rate |-> cr, frequency |-> fq,
     last_coupon_date |-> lc, settlement_date |-> sd, convention |-> cv]

\* last coupon dates on days 31, 30, 29 and 15, before and in a leap year
LastCouponDates ==
    { Date(2024, 1, 31), Date(2023, 6, 30), Date(2024, 2, 29), Date(2023, 11, 15) }

\* coupon rates of 1.25 % and 5 %
CouponRates == { <<125, 100>>, Dec(5) }

\* the days explored after the last coupon date: the longest coupon period
\* of the frequency and two days more
AccrualDays(frequency) ==
    IF get_frequency_multiplier(frequency) = 0 THEN MaxAccrualDays \div 12
    ELSE MaxAccrualDays \div get_frequency_multiplier(frequency) + 2

\* settlement dates from the last coupon date to past the next one
InitAccrued ==
    /\ \E cr \in CouponRates, fq \in Frequencies, lc \in LastCouponDates,
          cv \in Conventions :
       \E n \in 0..AccrualDays(fq) :
          args = AccruedArgs(Dec(100), cr, fq, lc, DatePlus(lc, n), cv)
    /\ pc = "accrued"
    /\ result = Pending
    /\ ytm_guess = FZero
    /\ iteration = 0
    /\ t = 0
    /\ pv = FZero
    /\ pv_derivative = FZero
    /\ current_date = NoDate
    /\ coupon_dates = <<>>
    /\ SingleCall
    /\ NoDatabase

NextAccrued == AccruedCall

SpecAccrued == InitAccrued /\ [][NextAccrued]_vars

(* Properties of calculate_accrued_interest *)

\* round(a, 4) with ties away from zero
Round4HalfAway(a) ==
    IF -1 - a[3] <= 0 THEN a
    ELSE LET k == -1 - a[3]
             half == MagCmp(Trim(SubSeq(a[2], 1, Min2(k, Len(a[2])))),
                            MagShl(<<Base \div 2>>, k - 1))
         IN  Canon(a[1],
                   IF half >= 0 THEN MagAdd(MagShr(a[2], k), <<1>>) ELSE MagShr(a[2], k),
                   -1)

AccruedDone == pc = "done" /\ "settlement_date" \in DOMAIN args

\* periodCoupon * (daysAccrued / (daysInYear / paymentsPerYear)) for the
\* day count dc = <<daysAccrued, daysInYear>>
AccruedFormula(periodCoupon, paymentsPerYear, dc) ==
    FMul(periodCoupon, FDiv(FInt(dc[1]), FDiv(FInt(dc[2]), FInt(paymentsPerYear))))

\* C15: for a coupon-bearing frequency the accrued interest is
\* periodCoupon * (daysAccrued / (daysInYear / paymentsPerYear)), with
\* periodCoupon = faceValue * couponRatePercent / 100 / paymentsPerYear and
\* the day count of (lastCouponDate, settlementDate) under the convention,
\* rounded to four fractional digits with ties away from zero; for
\* ZERO_COUPON it is 0.
C15_RoundedHalfAwayFromZero ==
    AccruedDone =>
        result = Value(
            IF args.frequency = "ZERO_COUPON" THEN FZero
            ELSE Round4HalfAway(
                    AccruedFormula(
                        FDiv(FMul(Float(args.face_value),
                                  FDiv(Float(args.coupon_rate), FInt(100))),
                             FInt(freq_multiplier)),
                        freq_multiplier,
                        calculate_days_between(args.last_coupon_date,
                                               args.settlement_date,
                                               args.convention).v)))

\* C16: for settlement dates from the last coupon date on, the accrued
\* interest of a settlement date is not above that of the day after it,
\* under each convention and frequency, and it is 0 when the settlement date
\* is the last coupon date.
C16_NonDecreasing ==
    AccruedDone =>
        /\ result.tag = "value"
        /\ args.settlement_date = args.last_coupon_date => result.v = FZero
        /\ FLe(result.v,
               calculate_accrued_interest(
                   args.face_value, args.coupon_rate, args.frequency,
                   args.last_coupon_date, Tomorrow(args.settlement_date),
                   args.convention))

\* under Thirty/360 a positive accrued interest has been returned for a
\* settlement on day 31, which counts no more days than day 30 does
C16_Witness ==
    /\ AccruedDone
    /\ args.convention = "THIRTY_360"
    /\ args.settlement_date.day = 31
    /\ args.last_coupon_date.day = 30
    /\ result.tag = "value"
    /\ result.v[1] = 1

---------------------------------------------------------------------------
(* calculate_duration and calculate_convexity *)

\* lines 133 and 177: the yield per period as a fraction
periodic_ytm == FDiv(FDiv(Float(args.ytm), FInt(100)), FInt(freq_multiplier))

\* lines 141 and 185: the weight of the coupon of period n
CouponWeight(kind, n, fm) ==
    IF kind = "duration" THEN FDiv(FInt(n), FInt(fm)) ELSE FInt(n * (n + 1))

\* lines 147 and 191: the weight of the face value
FaceWeight(kind, n, fm) ==
    IF kind = "duration" THEN FDiv(n, FInt(fm)) ELSE FMul(n, FAdd(n, FInt(1)))

\* lines 140 and 184: the division by a zero discount factor raises
RiskTotalsZeroDivision(sums) == [sums EXCEPT !.tag = "ZeroDivisionError"]

\* lines 140-142 and 184-186: the coupon pv0 of period sums.t added to the
\* totals
RiskAdded(kind, fm, sums, pv0) ==
    [tag |-> "ok", t |-> sums.t + 1,
     weighted_pv |-> FAdd(sums.weighted_pv, FMul(CouponWeight(kind, sums.t, fm), pv0)),
     total_pv |-> FAdd(sums.total_pv, pv0)]

\* lines 139-142 and 183-186 under the discount factor df of the period
RiskTerm(kind, cp, fm, sums, df) ==
    IF df[1] # "ok" THEN [sums EXCEPT !.tag = df[1]]
    ELSE IF df[2][1] = 0 THEN RiskTotalsZeroDivision(sums)
    ELSE RiskAdded(kind, fm, sums, FDiv(cp, df[2]))

\* lines 138-142 and 182-186: the loop over the periods sums.t .. n
RECURSIVE RiskCoupons(_, _, _, _, _, _)
RiskCoupons(kind, cp, base, fm, n, sums) ==
    IF sums.tag # "ok" \/ sums.t > n THEN sums
    ELSE RiskCoupons(kind, cp, base, fm, n,
                     RiskTerm(kind, cp, fm, sums, FPow(base, FInt(sums.t))))

\* lines 146-148 and 190-192: the face value f discounted by df added to the
\* totals; under a complex discount factor the totals are complex, zero only
\* when the face value and the coupons are
RiskFaceAdded(kind, f, n, fm, sums, df) ==
    IF df[1] \notin {"ok", "complex"} THEN [sums EXCEPT !.tag = df[1]]
    ELSE IF df[2][1] = 0 THEN RiskTotalsZeroDivision(sums)
    ELSE IF df[1] = "complex" THEN [sums EXCEPT !.tag = "complex"]
    ELSE [tag |-> "ok", t |-> sums.t,
          weighted_pv |-> FAdd(sums.weighted_pv,
                               FMul(FaceWeight(kind, n, fm), FDiv(f, df[2]))),
          total_pv |-> FAdd(sums.total_pv, FDiv(f, df[2]))]

\* lines 145-148 and 189-192 on the totals of the coupons
RiskFace(kind, f, base, n, fm, sums) ==
    IF sums.tag # "ok" THEN sums
    ELSE RiskFaceAdded(kind, f, n, fm, sums, FPow(base, n))

\* lines 135-148 and 179-192: the totals, or the exception raised
RiskTotals(kind, base) ==
    RiskFace(kind, face, base, periods, freq_multiplier,
             RiskCoupons(kind, coupon_payment, base, freq_multiplier, FTrunc(periods),
                         [tag |-> "ok", t |-> 1, weighted_pv |-> FZero,
                          total_pv |-> FZero]))

\* total_pv == 0, also for complex totals
TotalIsZero(sums) ==
    IF sums.tag = "complex" THEN face[1] = 0 /\ sums.total_pv[1] = 0
    ELSE sums.total_pv[1] = 0

\* lines 150 and 194
NoResult(sums) == TotalIsZero(sums)

\* lines 153-156 on the totals
DurationOf(sums, base) ==
    IF sums.tag \notin {"ok", "complex"} THEN Raise(sums.tag)
    ELSE IF NoResult(sums) THEN None
    ELSE IF sums.tag = "complex" THEN Raise("TypeError")
    ELSE IF base[1] = 0 THEN Raise("ZeroDivisionError")
    ELSE Value(<<Round4(FDiv(sums.weighted_pv, sums.total_pv)),
                 Round4(FDiv(FDiv(sums.weighted_pv, sums.total_pv), base))>>)

\* lines 127-129: years_to_maturity is divided as it was passed, and a
\* Decimal divided by a float raises TypeError
ZeroCouponDuration(years_type, years, base) ==
    IF years_type = "Decimal" THEN Raise("TypeError")
    ELSE IF base[1] = 0 THEN Raise("ZeroDivisionError")
    ELSE Value(<<years, FDiv(years, base)>>)

\* lines 125-156
calculate_duration ==
    IF freq_multiplier = 0
    THEN ZeroCouponDuration(args.years_type, Float(args.years_to_maturity),
                            FAdd(FInt(1), FDiv(Float(args.ytm), FInt(100))))
    ELSE DurationOf(RiskTotals("duration", FAdd(FInt(1), periodic_ytm)),
                    FAdd(FInt(1), periodic_ytm))

\* line 197 on the totals and the divisor
ConvexityOver(sums, divisor) ==
    IF divisor[1] = 0 THEN Raise("ZeroDivisionError")
    ELSE Value(Round4(FDiv(sums.weighted_pv, divisor)))

\* lines 194-198 on the totals
ConvexityOf(sums, fm, base) ==
    IF sums.tag \notin {"ok", "complex"} THEN Raise(sums.tag)
    ELSE IF NoResult(sums) THEN None
    ELSE IF sums.tag = "complex" THEN Raise("TypeError")
    ELSE ConvexityOver(sums, FMul(FMul(sums.total_pv, FInt(fm * fm)), FMul(base, base)))

\* lines 170-173
ZeroCouponConvexity(n, base) ==
    IF base[1] = 0 THEN Raise("ZeroDivisionError")
    ELSE Value(Round4(FDiv(FMul(n, FAdd(n, FInt(1))), FMul(base, base))))

\* lines 168-198
calculate_convexity ==
    IF freq_multiplier = 0
    THEN ZeroCouponConvexity(Float(args.years_to_maturity),
                             FAdd(FInt(1), FDiv(Float(args.ytm), FInt(100))))
    ELSE ConvexityOf(RiskTotals("convexity", FAdd(FInt(1), periodic_ytm)),
                     freq_multiplier, FAdd(FInt(1), periodic_ytm))

\* a call of calculate_duration and its return
DurationCall ==
    /\ pc = "duration"
    /\ result' = calculate_duration
    /\ pc' = "done"
    /\ UNCHANGED <<args, ytmLocals, genLocals, scheduler, db>>

\* a call of calculate_convexity and its return
ConvexityCall ==
    /\ pc = "convexity"
    /\ result' = calculate_convexity
    /\ pc' = "done"
    /\ UNCHANGED <<args, ytmLocals, genLocals, scheduler, db>>

(* The calls explored *)

RiskArgs(fn, fv, cr, fq, ym, yt, y) ==
    [function |-> fn, face_value |-> fv, coupon_rate |-> cr, frequency |-> fq,
     years_to_maturity |-> ym, years_type |-> yt, ytm |-> y]

\* years_to_maturity is passed as a Decimal or as a float
YearsTypes == {"Decimal", "float"}

\* yields that make 1 + periodic_ytm negative, zero and positive
RiskYields == { Dec(-300), Dec(-100), Dec(0), Dec(5) }

\* zero and positive cash flows, whole and fractional numbers of periods
RiskGrid ==
    { RiskArgs(fn, Dec(fv), Dec(cr), fq, <<yh, 2>>, yt, y) :
        fn \in {"duration", "convexity"}, fv \in {0, 100}, cr \in {0, 5},
        fq \in Frequencies, yh \in 0..4, yt \in YearsTypes, y \in RiskYields }

InitRisk ==
    /\ args \in RiskGrid
    /\ pc = args.function
    /\ result = Pending
    /\ ytm_guess = FZero
    /\ iteration = 0
    /\ t = 0
    /\ pv = FZero
    /\ pv_derivative = FZero
    /\ current_date = NoDate
    /\ coupon_dates = <<>>
    /\ SingleCall
    /\ NoDatabase

NextRisk == DurationCall \/ ConvexityCall

SpecRisk == InitRisk /\ [][NextRisk]_vars

(* Properties of calculate_duration and calculate_convexity *)

RiskDone(fn) == pc = "done" /\ "function" \in DOMAIN args /\ args.function = fn

\* C17: for a ZERO_COUPON bond, a positive yield and years_to_maturity passed
\* as a Decimal, calculate_duration returns the pair of years_to_maturity
\* and years_to_maturity / (1 + ytm / 100) and does not fail.
C17_ZeroCouponDurationIsYears ==
    ( /\ RiskDone("duration")
      /\ args.frequency = "ZERO_COUPON"
      /\ args.years_type = "Decimal"
      /\ args.ytm[1] > 0 ) =>
        result = Value(<<Float(args.years_to_maturity),
                         FDiv(Float(args.years_to_maturity),
                              FAdd(FInt(1), FDiv(Float(args.ytm), FInt(100))))>>)

\* C18: for every coupon-bearing input calculate_duration and
\* calculate_convexity end in the rounded result or in no result, never in a
\* division by zero, and in no result whenever total_pv is 0.
C18_NoDivisionByZero ==
    ( /\ pc = "done"
      /\ "function" \in DOMAIN args
      /\ CouponBearing ) =>
        /\ result.tag \in {"value", "None"}
        /\ LET sums == RiskTotals(args.function, FAdd(FInt(1), periodic_ytm))
           IN  (sums.tag = "ok" /\ sums.total_pv[1] = 0) => result = None

---------------------------------------------------------------------------
(* Decimal arithmetic *)

(***************************************************************************)
(* The outcome of an operation on Decimals is <<sign, coefficient,         *)
(* exponent>> of value sign * coefficient * 10^exponent, the coefficient a *)
(* magnitude.  An operation rounds its exact outcome to DecimalPrec        *)
(* significant digits, ties to the even neighbour, as the default context  *)
(* of the decimal module does; the coefficient of a non-zero outcome is    *)
(* kept at DecimalPrec digits, trailing zeros included.                    *)
(***************************************************************************)
DecimalPrec == 28

DigitsOf(n) == IF n < 10 THEN 1 ELSE IF n < 100 THEN 2 ELSE IF n < 1000 THEN 3 ELSE 4

\* the number of decimal digits of a trimmed magnitude
MagDigits(m) == IF Len(m) = 0 THEN 0 ELSE 4 * (Len(m) - 1) + DigitsOf(m[Len(m)])

PowerOfTen(k) == IF k = 0 THEN 1 ELSE IF k = 1 THEN 10 ELSE IF k = 2 THEN 100 ELSE 1000

\* 10^k
MagPow10(k) == MagShl(<<PowerOfTen(k % 4)>>, k \div 4)

RECURSIVE Log10(_)
Log10(d) == IF d <= 1 THEN 0 ELSE 1 + Log10(d \div 10)

AbsInt(n) == IF n < 0 THEN -n ELSE n
SignInt(n) == IF n < 0 THEN -1 ELSE IF n > 0 THEN 1 ELSE 0

\* the Decimal d = <<numerator, denominator>> with its coefficient
Decimal(d) == <<SignInt(d[1]), MagOfNat(AbsInt(d[1])), -Log10(d[2])>>

\* num * 10^s over den, divided with remainder
DecimalQuotient(num, den, s) ==
    MagQuotRem(MagMul(num, MagPow10(Max2(s, 0))), MagMul(den, MagPow10(Max2(-s, 0))))

\* the quotient of qrb rounded on its remainder, ties to the even neighbour
HalfEvenOn(q, cmp) ==
    IF cmp > 0 \/ (cmp = 0 /\ Limb(q, 1) % 2 = 1) THEN MagAdd(q, <<1>>) ELSE q

HalfEven(qrb) ==
    HalfEvenOn(Trim(qrb[1][1]), MagCmp(MagMulSmall(qrb[1][2], 2), qrb[2]))

\* the scale that leaves DecimalPrec digits in the quotient, s0 leaving
\* DecimalPrec or one more
DecimalScale(num, den, s0) ==
    IF MagDigits(Trim(DecimalQuotient(num, den, s0)[1][1])) > DecimalPrec
    THEN s0 - 1 ELSE s0

DecimalAt(sign, num, den, e, s) == <<sign, HalfEven(DecimalQuotient(num, den, s)), e - s>>

\* sign * (num / den) * 10^e in the precision of the context
DecimalRounded(sign, num, den, e) ==
    IF Len(num) = 0 THEN <<0, <<>>, e>>
    ELSE DecimalAt(sign, num, den, e,
                   DecimalScale(num, den, DecimalPrec - (MagDigits(num) - MagDigits(den))))

\* a / b
DecimalDiv(a, b) ==
    IF Len(b[2]) = 0
    THEN Raise(IF Len(a[2]) = 0 THEN "InvalidOperation" ELSE "DivisionByZero")
    ELSE Value(DecimalRounded(a[1] * b[1], a[2], b[2], a[3] - b[3]))

\* a * b
DecimalMul(a, b) == DecimalRounded(a[1] * b[1], MagMul(a[2], b[2]), <<1>>, a[3] + b[3])

---------------------------------------------------------------------------
(* calculate_current_yield *)

\* current_price <= 0 read as current_price < 0
YieldFlooredBelowZero(current_price) == current_price[1] < 0

\* if current_price <= 0
YieldFloored(current_price) == DecLe0(current_price)

\* (...) * Decimal("100") of the outcome of the division
TimesHundred(quotient) ==
    IF quotient.tag = "value"
    THEN Value(DecimalMul(quotient.v, Decimal(Dec(100)))) ELSE quotient

calculate_current_yield(annual_coupon, current_price) ==
    IF YieldFloored(current_price) THEN Value(Decimal(<<0, 10>>))
    ELSE TimesHundred(DecimalDiv(Decimal(annual_coupon), Decimal(current_price)))

\* a call of calculate_current_yield and its return
CurrentYieldCall ==
    /\ pc = "current_yield"
    /\ result' = calculate_current_yield(args.annual_coupon, args.current_price)
    /\ pc' = "done"
    /\ UNCHANGED <<args, ytmLocals, genLocals, scheduler, db>>

AnnualCoupons ==
    { Dec(-5), Dec(0), <<1, 100>>, Dec(1), Dec(5), <<625, 100>>, Dec(7), Dec(50),
      <<12345, 100>>, Dec(99999) }

CurrentPrices ==
    { Dec(-100), <<-1, 100>>, Dec(0), <<1, 100>>, Dec(3), Dec(7), Dec(95), Dec(100),
      Dec(300), <<62092, 100>>, Dec(1000), Dec(99999) }

YieldArgs(annual_coupon, current_price) ==
    [function |-> "current_yield", annual_coupon |-> annual_coupon,
     current_price |-> current_price]

InitYield ==
    /\ args \in { YieldArgs(c, p) : c \in AnnualCoupons, p \in CurrentPrices }
    /\ pc = "current_yield"
    /\ result = Pending
    /\ ytm_guess = FZero
    /\ iteration = 0
    /\ t = 0
    /\ pv = FZero
    /\ pv_derivative = FZero
    /\ current_date = NoDate
    /\ coupon_dates = <<>>
    /\ SingleCall
    /\ NoDatabase

NextYield == CurrentYieldCall

SpecYield == InitYield /\ [][NextYield]_vars

(* Properties of calculate_current_yield *)

YieldDone == pc = "done" /\ "current_price" \in DOMAIN args

\* |a - b|
MagDiff(a, b) == IF MagCmp(a, b) >= 0 THEN MagSub(a, b) ELSE MagSub(b, a)

\* r, of DecimalPrec digits or more, is within half a unit of its last digit
\* of 100 * c / p, for Decimals c and p > 0:
\* 2 * |R * pn * cd - 100 * |cn| * pd * 10^k| <= pn * cd,  r = R * 10^-k
NearestTo(R, k, c, p) ==
    /\ k >= 0
    /\ MagDigits(R) >= DecimalPrec
    /\ MagCmp(MagMulSmall(MagDiff(MagMul(R, MagOfNat(p[1] * c[2])),
                                  MagMul(MagOfNat(100 * AbsInt(c[1]) * p[2]),
                                         MagPow10(k))), 2),
              MagOfNat(p[1] * c[2])) <= 0

QuotientTimesHundred(r, c, p) ==
    /\ r[1] = SignInt(c[1])
    /\ r[1] # 0 => NearestTo(r[2], -r[3], c, p)

\* C19: calculate_current_yield returns 0 for every current_price <= 0 and,
\* for every current_price > 0, annual_coupon / current_price * 100 to the
\* 28 significant digits of Decimal arithmetic.
C19_FlooredOrQuotient ==
    YieldDone =>
        /\ result.tag = "value"
        /\ IF args.current_price[1] <= 0 THEN result.v[1] = 0
           ELSE QuotientTimesHundred(result.v, args.annual_coupon, args.current_price)

C19_Witness ==
    /\ YieldDone
    /\ args.annual_coupon = Dec(5)
    /\ args.current_price = Dec(95)
    /\ result.tag = "value"
    /\ result.v[1] = 1

C19_WitnessFloor ==
    /\ YieldDone
    /\ args.annual_coupon = Dec(5)
    /\ args.current_price = Dec(0)
    /\ result = Value(Decimal(<<0, 10>>))

---------------------------------------------------------------------------
(* Concurrent calls *)

(***************************************************************************)
(* Every function of FinancialCalculator is a static method that reads its *)
(* arguments and assigns only its locals; the class and the module hold no *)
(* attribute that a call assigns.  A thread that makes a call owns the     *)
(* frame of the call: when the interpreter switches threads the frame of   *)
(* the thread that ran is set aside and the frame of the next thread is    *)
(* taken up where it was left.                                             *)
(***************************************************************************)

\* thread 0 makes its call before the other threads start
Threads == {1, 2}

\* the frame of the running call
Frame ==
    [pc |-> pc, args |-> args, result |-> result, ytm_guess |-> ytm_guess,
     iteration |-> iteration, t |-> t, pv |-> pv, pv_derivative |-> pv_derivative,
     current_date |-> current_date, coupon_dates |-> coupon_dates,
     preempted |-> running.preempted]

\* the frame of a call about to be made
Entry(entry, a) ==
    [pc |-> entry, args |-> a, result |-> Pending, ytm_guess |-> FZero,
     iteration |-> 0, t |-> 0, pv |-> FZero, pv_derivative |-> FZero,
     current_date |-> NoDate, coupon_dates |-> <<>>, preempted |-> FALSE]

EntryPoints ==
    {"call", "daycount", "gen", "accrued", "duration", "convexity", "current_yield"}

\* the running call has started and has not returned
MidCall == pc \notin EntryPoints \cup {"done"}

\* the locals kept in storage that the threads share: a thread goes on with
\* the locals that the thread before it left
ResumedShared(own, left) ==
    [left EXCEPT !.pc = own.pc, !.args = own.args, !.result = own.result,
                 !.preempted = own.preempted]

\* a thread goes on with the frame it owns
Resumed(own, left) == own

\* frame f becomes the running call of thread th
TakeUp(th, f) ==
    /\ running' = [thread |-> th, preempted |-> f.preempted]
    /\ pc' = f.pc
    /\ args' = f.args
    /\ result' = f.result
    /\ ytm_guess' = f.ytm_guess
    /\ iteration' = f.iteration
    /\ t' = f.t
    /\ pv' = f.pv
    /\ pv_derivative' = f.pv_derivative
    /\ current_date' = f.current_date
    /\ coupon_dates' = f.coupon_dates

\* the frames set aside once the running call is set aside for thread th
SetAside(th, left) ==
    [i \in (DOMAIN suspended \cup {running.thread}) \ {th} |->
        IF i = running.thread THEN left ELSE suspended[i]]

\* the interpreter switches to thread th, whose call has not returned
Switch(th) ==
    /\ th \in DOMAIN suspended
    /\ suspended[th].pc # "done"
    /\ running.thread = 0 => pc = "done"
    /\ suspended' = SetAside(th, [Frame EXCEPT !.preempted = @ \/ MidCall])
    /\ TakeUp(th, Resumed(suspended[th], Frame))
    /\ UNCHANGED db

\* one call of each function, and a second one of the functions with a loop
ThreadCalls ==
    { <<"call", YtmArgs(Dec(100), Dec(5), "ANNUAL", Dec(2), Dec(95), MaxIter)>>,
      <<"call", YtmArgs(Dec(100), Dec(0), "ANNUAL", Dec(1), Dec(300), DefaultMaxIterations)>>,
      <<"daycount", [start_date |-> Date(2024, 1, 31), end_date |-> Date(2024, 3, 31),
                     convention |-> "THIRTY_360"]>>,
      <<"gen", GenArgs(Date(2024, 1, 1), Date(2025, 1, 1), "QUARTERLY", NoDate)>>,
      <<"gen", GenArgs(Date(2023, 6, 30), Date(2024, 8, 31), "SEMI_ANNUAL", Date(2024, 6, 1))>>,
      <<"accrued", AccruedArgs(Dec(100), Dec(5), "SEMI_ANNUAL", Date(2024, 1, 31),
                               Date(2024, 3, 15), "ACT_360")>>,
      <<"duration", RiskArgs("duration", Dec(100), Dec(5), "ANNUAL", Dec(2), "Decimal", Dec(5))>>,
      <<"convexity", RiskArgs("convexity", Dec(100), Dec(5), "ANNUAL", Dec(2), "Decimal", Dec(5))>>,
      <<"current_yield", YieldArgs(Dec(5), Dec(95))>> }

\* thread 0 makes the call of thread 1 alone; threads 1 and 2 then make
\* their calls concurrently
InitThreads ==
    \E c1 \in ThreadCalls, c2 \in ThreadCalls :
        /\ running = [thread |-> 0, preempted |-> FALSE]
        /\ suspended = [th \in Threads |->
                           IF th = 1 THEN Entry(c1[1], c1[2]) ELSE Entry(c2[1], c2[2])]
        /\ pc = c1[1]
        /\ args = c1[2]
        /\ result = Pending
        /\ ytm_guess = FZero
        /\ iteration = 0
        /\ t = 0
        /\ pv = FZero
        /\ pv_derivative = FZero
        /\ current_date = NoDate
        /\ coupon_dates = <<>>
        /\ NoDatabase

NextThreads ==
    \/ YtmCall \/ YtmIterate \/ YtmNotConverged \/ YtmCoupon \/ YtmNewton
    \/ DayCountCall
    \/ GenCall \/ GenStep \/ GenReturn
    \/ AccruedCall
    \/ DurationCall \/ ConvexityCall
    \/ CurrentYieldCall
    \/ \E th \in Threads : Switch(th)

SpecThreads == InitThreads /\ [][NextThreads]_vars

(* Properties of concurrent calls *)

\* the frame of thread i, running or set aside
FrameOf(i) == IF i = running.thread THEN Frame ELSE suspended[i]

BothReturned(i, j) ==
    /\ FrameOf(i).pc = "done"
    /\ FrameOf(j).pc = "done"
    /\ FrameOf(i).args = FrameOf(j).args

---------------------------------------------------------------------------
(* Properties of the loop of calculate_ytm *)

\* ytm_guess is the outcome of a Newton-Raphson update
AfterUpdate ==
    \/ pc = "head" /\ iteration >= 1
    \/ pc = "coupons" /\ iteration >= 2

\* ytm_guess - price_diff / pv_derivative on the totals ft of an iteration
UpdateOf(y, ft) == FSub(y, FDiv(FSub(ft[2], price), ft[3]))

\* the guess that follows the update u
ClampedOf(u) == IF FLt(u, FRatio(-99, 100)) THEN FRatio(1, 100) ELSE u

---------------------------------------------------------------------------
(* Fractional periods in calculate_ytm, calculate_duration and             *)
(* calculate_convexity                                                     *)

\* the calls of the three functions
InitPeriods == InitYtm \/ InitRisk

NextPeriods ==
    \/ YtmCall \/ YtmIterate \/ YtmNotConverged \/ YtmCoupon \/ YtmNewton
    \/ DurationCall \/ ConvexityCall

SpecPeriods == InitPeriods /\ [][NextPeriods]_vars

\* the number of coupons of a bond of periods periods
WholePeriods == Max2(FTrunc(periods), 0)

\* the guess after the update on the totals of the coupons and the face
\* value
UpdatedOn(total, derivative) ==
    ClampedOf(FSub(ytm_guess, FDiv(FSub(total, price), derivative)))

\* the totals of the coupons with the face value discounted at p periods
\* under the base b
UpdatedAt(b, p) ==
    UpdatedOn(FAdd(pv, FDiv(face, FPow(b, p)[2])),
              FAdd(pv_derivative,
                   FDiv(FMul(FNeg(p), face), FPow(b, FAdd(p, FInt(1)))[2])))

\* <<weighted_pv, total_pv>> of the coupons 1..n under the base b, each
\* coupon added after the ones before it
RECURSIVE CouponTotals(_, _, _)
PlusCoupon(kind, n, prev, pv0) ==
    <<FAdd(prev[1],
           FMul(IF kind = "duration" THEN FDiv(FInt(n), FInt(freq_multiplier))
                ELSE FInt(n * (n + 1)), pv0)),
      FAdd(prev[2], pv0)>>

CouponTotals(kind, b, n) ==
    IF n <= 0 THEN <<FZero, FZero>>
    ELSE PlusCoupon(kind, n, CouponTotals(kind, b, n - 1),
                    FDiv(coupon_payment, FPow(b, FInt(n))[2]))

\* the totals with the face value of present value face_pv at p periods
PlusFace(kind, p, prev, face_pv) ==
    <<FAdd(prev[1],
           FMul(IF kind = "duration" THEN FDiv(p, FInt(freq_multiplier))
                ELSE FMul(p, FAdd(p, FInt(1))), face_pv)),
      FAdd(prev[2], face_pv)>>

FractionalTotals(kind, b) ==
    PlusFace(kind, periods, CouponTotals(kind, b, WholePeriods),
             FDiv(face, FPow(b, periods)[2]))

\* the value returned on the totals tot
FractionalValue(kind, tot, b) ==
    IF kind = "duration"
    THEN <<Round4(FDiv(tot[1], tot[2])), Round4(FDiv(FDiv(tot[1], tot[2]), b))>>
    ELSE Round4(FDiv(tot[1],
                     FMul(FMul(tot[2], FInt(freq_multiplier * freq_multiplier)),
                          FMul(b, b))))

RiskValued ==
    /\ pc = "done"
    /\ "ytm" \in DOMAIN args
    /\ CouponBearing
    /\ result.tag = "value"

\* C24: for a coupon-bearing bond the coupons are summed over the whole
\* periods t = 1 .. int(periods) only, none when periods < 1, and the face
\* value, with its derivative or weight, is discounted at the exact value of
\* periods, in calculate_ytm, calculate_duration and calculate_convexity.
C24_WholeCouponsExactFace ==
    /\ [][("max_iterations" \in DOMAIN args /\ pc = "coupons" /\ pc' = "coupons") =>
             /\ t <= WholePeriods
             /\ t' = t + 1
             /\ pv' = FAdd(pv, FDiv(coupon_payment,
                                    FPow(FAdd(FInt(1), ytm_guess), FInt(t))[2]))]_vars
    /\ [][("max_iterations" \in DOMAIN args /\ pc = "coupons" /\ pc' = "head") =>
             /\ t = WholePeriods + 1
             /\ ytm_guess' = UpdatedAt(FAdd(FInt(1), ytm_guess), periods)]_vars
    /\ []( ("max_iterations" \in DOMAIN args /\ pc = "coupons" /\ WholePeriods = 0) =>
             pv = FZero /\ t = 1 )
    /\ [](RiskValued =>
             result.v = FractionalValue(args.function,
                                        FractionalTotals(args.function,
                                                         FAdd(FInt(1), periodic_ytm)),
                                        FAdd(FInt(1), periodic_ytm)))

\* the duration of a bond of one whole period and a half has been returned
C24_Witness ==
    /\ RiskValued
    /\ args.function = "duration"
    /\ FTrunc(periods) = 1
    /\ ~FIsInt(periods)
    /\ coupon_payment[1] # 0

---------------------------------------------------------------------------
(* AnalyticsService.calculate_holding_yields *)

(***************************************************************************)
(* args holds the locals of the service call: what the two queries found,  *)
(* the terms of the security, the arguments of the engine call in progress *)
(* and the outcomes of the engine calls made so far.  The engine calls are *)
(* the actions of calculate_ytm, calculate_duration and                    *)
(* calculate_convexity above.                                              *)
(***************************************************************************)

\* a * b and a / 100 for Decimals
DecTimes(a, b) == <<a[1] * b[1], a[2] * b[2]>>
DecPercent(a) == <<a[1], a[2] * 100>>

\* bool(x) for an Optional[Decimal] x: None and zero are false
Truthy(x) == x.tag = "value" /\ x.v[1] # 0

\* line 216: current_price or holding.purchase_price
PriceUsed(current_price, purchase_price) ==
    IF current_price = None \/ current_price.v[1] = 0 THEN purchase_price
    ELSE current_price.v

\* line 220: Decimal(str(days / 365.25))
YearsOf(days) == <<days * 100, 36525>>

\* the Decimal of a yield of at most four decimals
YieldArgument(y) == <<FTrunc(FMul(y, FInt(10000))), 10000>>

\* lines 265-272
YieldCalculation(current_yield, yield_to_maturity, duration, convexity) ==
    [current_yield |-> current_yield, yield_to_maturity |-> yield_to_maturity,
     macaulay_duration |-> IF duration.tag = "value" THEN Value(duration.v[1]) ELSE None,
     modified_duration |-> IF duration.tag = "value" THEN Value(duration.v[2]) ELSE None,
     convexity |-> convexity]

\* lines 226-240: the arguments of calculate_ytm and the current yield
YieldsEngineArgs(price_amount) ==
    [years_to_maturity |-> YearsOf(args.days_to_maturity),
     current_price |-> price_amount,
     max_iterations |-> DefaultMaxIterations,
     current_yield |->
         calculate_current_yield(DecTimes(args.face_value, DecPercent(args.coupon_rate)),
                                 price_amount)]

\* lines 205-240: the queries, the early returns and the call of calculate_ytm
HoldingLookup ==
    /\ pc = "holding_yields"
    /\ IF ~args.holding_found \/ ~args.security_found
       THEN /\ result' = None
            /\ pc' = "returned"
            /\ UNCHANGED args
       ELSE IF DecLe0(YearsOf(args.days_to_maturity))
       THEN /\ result' = Value(YieldCalculation(None, None, None, None))
            /\ pc' = "returned"
            /\ UNCHANGED args
       ELSE /\ args' = args @@ YieldsEngineArgs(
                           DecTimes(args.face_value,
                                    DecPercent(PriceUsed(args.price_given,
                                                         args.purchase_price))))
            /\ pc' = "call"
            /\ UNCHANGED result
    /\ UNCHANGED <<ytmLocals, genLocals, scheduler, db>>

\* lines 247-254: calculate_ytm has returned; the risk metrics are asked for
\* if ytm
HoldingYtmReturned ==
    /\ pc = "done"
    /\ "holding_found" \in DOMAIN args
    /\ "ytm" \notin DOMAIN args
    /\ IF result.tag = "raise"
       THEN /\ pc' = "returned"
            /\ UNCHANGED <<args, result>>
       ELSE IF Truthy(result)
       THEN /\ args' = args @@ [yield_to_maturity |-> result,
                                ytm |-> YieldArgument(result.v),
                                years_type |-> "Decimal",
                                function |-> "duration",
                                duration |-> None]
            /\ pc' = "duration"
            /\ result' = Pending
       ELSE /\ result' = Value(YieldCalculation(args.current_yield, result, None, None))
            /\ pc' = "returned"
            /\ UNCHANGED args
    /\ UNCHANGED <<ytmLocals, genLocals, scheduler, db>>

\* lines 248-262: calculate_duration has returned, calculate_convexity is
\* called
HoldingDurationReturned ==
    /\ pc = "done"
    /\ "holding_found" \in DOMAIN args
    /\ "ytm" \in DOMAIN args
    /\ args.function = "duration"
    /\ IF result.tag = "raise"
       THEN /\ pc' = "returned"
            /\ UNCHANGED <<args, result>>
       ELSE /\ args' = [args EXCEPT !.function = "convexity", !.duration = result]
            /\ pc' = "convexity"
            /\ result' = Pending
    /\ UNCHANGED <<ytmLocals, genLocals, scheduler, db>>

\* lines 256-272: calculate_convexity has returned and the metrics are
\* returned
HoldingConvexityReturned ==
    /\ pc = "done"
    /\ "holding_found" \in DOMAIN args
    /\ "ytm" \in DOMAIN args
    /\ args.function = "convexity"
    /\ IF result.tag = "raise"
       THEN UNCHANGED result
       ELSE result' = Value(YieldCalculation(args.current_yield, args.yield_to_maturity,
                                             args.duration, result))
    /\ pc' = "returned"
    /\ UNCHANGED <<args, ytmLocals, genLocals, scheduler, db>>

\* the holdings asked about: found or not, of a security found or not that
\* matures before today, today or in four years; at the price 10000 the
\* solver does not converge
HoldingCalls ==
    [holding_found : BOOLEAN, security_found : BOOLEAN,
     face_value : {Dec(100)}, coupon_rate : {Dec(0), Dec(5)},
     frequency : {"ZERO_COUPON", "ANNUAL", "SEMI_ANNUAL"},
     purchase_price : {Dec(95), Dec(100)},
     price_given : {None, Value(Dec(0)), Value(Dec(105)), Value(Dec(10000))},
     days_to_maturity : {-10, 0, 1461}]

InitHoldingYields ==
    /\ args \in HoldingCalls
    /\ pc = "holding_yields"
    /\ result = Pending
    /\ ytm_guess = FZero
    /\ iteration = 0
    /\ t = 0
    /\ pv = FZero
    /\ pv_derivative = FZero
    /\ current_date = NoDate
    /\ coupon_dates = <<>>
    /\ SingleCall
    /\ NoDatabase

NextHoldingYields ==
    \/ HoldingLookup
    \/ YtmCall \/ YtmIterate \/ YtmNotConverged \/ YtmCoupon \/ YtmNewton
    \/ HoldingYtmReturned
    \/ DurationCall
    \/ HoldingDurationReturned
    \/ ConvexityCall
    \/ HoldingConvexityReturned

SpecHoldingYields == InitHoldingYields /\ [][NextHoldingYields]_vars

(* Properties of calculate_holding_yields *)

\* C25: the risk metrics are asked of the engine if and only if
\* yield_to_maturity is not None, a yield of exactly 0 included, and all
\* three are None when yield_to_maturity is None.
C25_RiskIffYield ==
    (pc = "returned" /\ result.tag = "value") =>
        /\ (result.v.yield_to_maturity # None) <=> ("function" \in DOMAIN args)
        /\ result.v.yield_to_maturity = None =>
              /\ result.v.macaulay_duration = None
              /\ result.v.modified_duration = None
              /\ result.v.convexity = None

---------------------------------------------------------------------------
(* CouponService.generate_coupon_schedule *)

(***************************************************************************)
(* args holds the locals of the service call and the arguments of its call *)
(* of generate_coupon_dates, whose start_from is the purchase date of the  *)
(* holding.  The id of an entry is a timestamp and is left out.            *)
(***************************************************************************)

\* PROJECTED if payment_date > date.today() else PAID
PaymentStatusOf(payment_date, today) ==
    IF DateLt(today, payment_date) THEN "PROJECTED" ELSE "PAID"

CouponPaymentSchema(payment_date, payment_amount, accrued_days, status) ==
    [payment_date |-> payment_date, payment_amount |-> payment_amount,
     accrued_days |-> accrued_days, status |-> status]

\* lines 412-413: the coupon of one period for the quantity held
SchedulePayment(face_value, coupon_rate, fm, quantity) ==
    DecimalMul(
        DecimalDiv(DecimalMul(Decimal(face_value),
                              DecimalDiv(Decimal(coupon_rate), Decimal(Dec(100))).v),
                   Decimal(Dec(fm))).v,
        Decimal(quantity))

\* lines 419-431: the entries of the dates from the i-th on, prev_date being
\* the date of the entry before
RECURSIVE ScheduleFrom(_, _, _, _, _)
ScheduleFrom(dates, i, prev_date, amount, today) ==
    IF i > Len(dates) THEN <<>>
    ELSE <<CouponPaymentSchema(dates[i], amount, DateSub(dates[i], prev_date),
                               PaymentStatusOf(dates[i], today))>>
         \o ScheduleFrom(dates, i + 1, dates[i], amount, today)

\* lines 377-394: the queries, the early returns and the call of
\* generate_coupon_dates
ScheduleLookup ==
    /\ pc = "coupon_schedule"
    /\ IF ~args.holding_found \/ ~args.security_found
       THEN /\ result' = Value(<<>>)
            /\ pc' = "returned"
       ELSE /\ pc' = "gen"
            /\ UNCHANGED result
    /\ UNCHANGED <<args, ytmLocals, genLocals, scheduler, db>>

\* lines 397-433: generate_coupon_dates has returned and the schedule is
\* built
ScheduleBuild ==
    /\ pc = "done"
    /\ "purchase_date" \in DOMAIN args
    /\ result' =
          IF result.tag = "raise" THEN result
          ELSE IF freq_multiplier = 0
          THEN Value(<<CouponPaymentSchema(
                          args.maturity_date,
                          DecimalMul(Decimal(args.face_value), Decimal(args.quantity)),
                          0, "PROJECTED")>>)
          ELSE Value(ScheduleFrom(result.v, 1, args.issue_date,
                                  SchedulePayment(args.face_value, args.coupon_rate,
                                                  freq_multiplier, args.quantity),
                                  args.today))
    /\ pc' = "returned"
    /\ UNCHANGED <<args, ytmLocals, genLocals, scheduler, db>>

\* holdings bought before the issue, between two coupon dates, on a coupon
\* date and after the maturity
ScheduleCalls ==
    { [holding_found |-> hf, security_found |-> sf,
       issue_date |-> issue_date, maturity_date |-> maturity_date,
       frequency |-> frequency, start_from |-> purchase_date,
       purchase_date |-> purchase_date, face_value |-> Dec(100),
       coupon_rate |-> Dec(5), quantity |-> Dec(10), today |-> today] :
        hf \in BOOLEAN, sf \in BOOLEAN,
        issue_date \in { Date(2024, 1, 1), Date(2023, 6, 30) },
        maturity_date \in { Date(2025, 1, 1), Date(2024, 8, 31) },
        frequency \in Frequencies,
        purchase_date \in { Date(2023, 1, 1), Date(2024, 6, 1), Date(2024, 7, 1),
                            Date(2026, 1, 1) },
        today \in { Date(2024, 7, 1), Date(2030, 1, 1) } }

InitSchedule ==
    /\ args \in ScheduleCalls
    /\ pc = "coupon_schedule"
    /\ result = Pending
    /\ ytm_guess = FZero
    /\ iteration = 0
    /\ t = 0
    /\ pv = FZero
    /\ pv_derivative = FZero
    /\ current_date = NoDate
    /\ coupon_dates = <<>>
    /\ SingleCall
    /\ NoDatabase

NextSchedule == ScheduleLookup \/ GenCall \/ GenStep \/ GenReturn \/ ScheduleBuild

SpecSchedule == InitSchedule /\ [][NextSchedule]_vars

(* Properties of generate_coupon_schedule *)

\* the date before d in the payment grid of the security, the issue date
\* before its first date
RECURSIVE GridDateBefore(_, _, _)
GridDateBefore(grid, i, d) ==
    IF i > Len(grid) \/ grid[i] = d
    THEN (IF i = 1 THEN args.issue_date ELSE grid[i - 1])
    ELSE GridDateBefore(grid, i + 1, d)

\* C26: each entry's accrued_days is the number of days since the coupon
\* date before it in the payment grid of the security, the issue date for
\* the first coupon of the bond, also when the purchase date of the holding
\* leaves earlier coupons out of the schedule.
C26_DaysSincePreviousCoupon ==
    ( /\ pc = "returned"
      /\ "purchase_date" \in DOMAIN args
      /\ CouponBearing
      /\ result.tag = "value" ) =>
        \A i \in 1..Len(result.v) :
            result.v[i].accrued_days =
                DateSub(result.v[i].payment_date,
                        GridDateBefore(UnfilteredSchedule.v, 1, result.v[i].payment_date))

---------------------------------------------------------------------------
(* HoldingService *)

(***************************************************************************)
(* db holds the rows of the portfolios, the securities and the holdings.   *)
(* The id of a holding is its place in the table, a holding row keeps the  *)
(* columns the service reads or writes, and every service function is an   *)
(* operator from the rows to <<the rows left, the value returned>>.        *)
(***************************************************************************)

MaxHoldings == 2

\* a float stored in a Numeric(15, 2) column and read back: the Decimal of
\* the nearest hundredth (x >= 0)
NearestWhole(whole, rest) == IF FLe(FRatio(1, 2), rest) THEN whole + 1 ELSE whole
WholeAndRest(y, whole) == NearestWhole(whole, FSub(y, FInt(whole)))
Hundredths(y) == WholeAndRest(y, FTrunc(y))
Numeric2(x) == <<Hundredths(FMul(x, FInt(100))), 100>>

\* line 136, with the price left out
investmentAtPar(holding, security) ==
    FDiv(FMul(Float(holding.quantity), Float(security.face_value)), FInt(100))

\* line 136
investment(holding, security) ==
    FDiv(FMul(FMul(Float(holding.purchase_price), Float(holding.quantity)),
              Float(security.face_value)),
         FInt(100))

\* lines 129-133 and the defaults of the columns
PortfolioHolding(id, portfolio_id, holding) ==
    [id |-> id, portfolio_id |-> portfolio_id, security_id |-> holding.security_id,
     purchase_price |-> holding.purchase_price, quantity |-> holding.quantity,
     current_holding |-> TRUE]

\* lines 137 and 139: the total assigned and committed
Invested(rows, portfolio_id, amount) ==
    [rows EXCEPT !.portfolios[portfolio_id].total_invested =
                     Numeric2(FAdd(Float(@), amount))]

Added(rows, row) == [rows EXCEPT !.holdings = Append(@, row)]

create_holding(rows, portfolio_id, holding) ==
    IF portfolio_id \notin DOMAIN rows.portfolios
       \/ holding.security_id \notin DOMAIN rows.securities
    THEN <<rows, None>>
    ELSE <<Invested(Added(rows, PortfolioHolding(Len(rows.holdings) + 1,
                                                 portfolio_id, holding)),
                    portfolio_id,
                    investment(holding, rows.securities[holding.security_id])),
           Value(PortfolioHolding(Len(rows.holdings) + 1, portfolio_id, holding))>>

get_holding(rows, holding_id) ==
    IF holding_id \in DOMAIN rows.holdings
    THEN <<rows, Value(rows.holdings[holding_id])>>
    ELSE <<rows, None>>

Listed(h, portfolio_id, current_only) ==
    /\ h.portfolio_id = portfolio_id
    /\ current_only => h.current_holding = TRUE

list_holdings(rows, portfolio_id, current_only) ==
    <<rows, Value(SelectSeq(rows.holdings,
                            LAMBDA h : Listed(h, portfolio_id, current_only)))>>

\* lines 175-177: setattr for every field that the update sets
Updated(row, update_data) ==
    [row EXCEPT !.quantity = IF "quantity" \in DOMAIN update_data
                             THEN update_data.quantity ELSE @,
                !.current_holding = IF "current_holding" \in DOMAIN update_data
                                    THEN update_data.current_holding ELSE @]

update_holding(rows, holding_id, holding_update) ==
    IF get_holding(rows, holding_id)[2].tag = "None" THEN <<rows, None>>
    ELSE <<[rows EXCEPT !.holdings[holding_id] = Updated(@, holding_update)],
           Value(Updated(rows.holdings[holding_id], holding_update))>>

\* the row deleted from the table, the later rows moving up
delete_holding_removed(rows, holding_id) ==
    IF get_holding(rows, holding_id)[2].tag = "None" THEN <<rows, Value(FALSE)>>
    ELSE <<[rows EXCEPT !.holdings =
                SubSeq(@, 1, holding_id - 1) \o SubSeq(@, holding_id + 1, Len(@))],
           Value(TRUE)>>

delete_holding(rows, holding_id) ==
    IF get_holding(rows, holding_id)[2].tag = "None" THEN <<rows, Value(FALSE)>>
    ELSE <<[rows EXCEPT !.holdings[holding_id].current_holding = FALSE], Value(TRUE)>>

\* server.py, lines 228-237: the endpoint DELETE /holdings/{holding_id}
delete_holding_response(success) ==
    IF ~success.v THEN Raise("HTTPException") ELSE None

\* a call of a service function that came back with the pair done
Served(call, done) ==
    /\ args' = call
    /\ db' = done[1]
    /\ result' = done[2]
    /\ UNCHANGED <<pc, ytmLocals, genLocals, scheduler>>

CreateHolding(portfolio_id, holding) ==
    /\ pc = "service"
    /\ Len(db.holdings) < MaxHoldings
    /\ Served([function |-> "create_holding", portfolio_id |-> portfolio_id,
               holding |-> holding],
              create_holding(db, portfolio_id, holding))

GetHolding(holding_id) ==
    /\ pc = "service"
    /\ Served([function |-> "get_holding", holding_id |-> holding_id],
              get_holding(db, holding_id))

ListHoldings(portfolio_id, current_only) ==
    /\ pc = "service"
    /\ Served([function |-> "list_holdings", portfolio_id |-> portfolio_id,
               current_only |-> current_only],
              list_holdings(db, portfolio_id, current_only))

UpdateHolding(holding_id, holding_update) ==
    /\ pc = "service"
    /\ Served([function |-> "update_holding", holding_id |-> holding_id,
               holding_update |-> holding_update],
              update_holding(db, holding_id, holding_update))

DeleteHolding(holding_id) ==
    /\ pc = "service"
    /\ Served([function |-> "delete_holding", holding_id |-> holding_id],
              delete_holding(db, holding_id))

\* the endpoint answers 204 with no body, or 404
Responded(call, done) == Served(call, <<done[1], delete_holding_response(done[2])>>)

DeleteHoldingRequest(holding_id) ==
    /\ pc = "service"
    /\ Responded([function |-> "DELETE /holdings", holding_id |-> holding_id],
                 delete_holding(db, holding_id))

\* two portfolios and one security exist; id 3 of a portfolio, id 2 of a
\* security and id MaxHoldings + 1 of a holding never do
PortfolioIds == {1, 2}
SecurityIds == {1}
HoldingIds == 1..(MaxHoldings + 1)

\* a whole quantity, and the smallest one of the column Numeric(15, 4)
HoldingCreates ==
    [security_id : SecurityIds \cup {2}, purchase_price : {Dec(96)},
     quantity : {Dec(1), <<1, 10000>>}]

\* model_dump(exclude_unset=True) of the updates sent: nothing, a new
\* quantity, and a holding made current again
UpdateField(f) == IF f = "quantity" THEN Dec(20) ELSE TRUE

HoldingUpdates ==
    { [f \in fs |-> UpdateField(f)] : fs \in {{}, {"quantity"}, {"current_holding"}} }

InitHoldings ==
    /\ db = [portfolios |-> [p \in PortfolioIds |-> [total_invested |-> <<0, 100>>]],
             securities |-> [s \in SecurityIds |-> [face_value |-> Dec(100)]],
             holdings |-> <<>>]
    /\ pc = "service"
    /\ args = [function |-> "none"]
    /\ result = Pending
    /\ ytm_guess = FZero
    /\ iteration = 0
    /\ t = 0
    /\ pv = FZero
    /\ pv_derivative = FZero
    /\ current_date = NoDate
    /\ coupon_dates = <<>>
    /\ SingleCall

NextHoldings ==
    \/ \E portfolio_id \in PortfolioIds \cup {3}, holding \in HoldingCreates :
           CreateHolding(portfolio_id, holding)
    \/ \E holding_id \in HoldingIds : GetHolding(holding_id)
    \/ \E portfolio_id \in PortfolioIds \cup {3}, current_only \in BOOLEAN :
           ListHoldings(portfolio_id, current_only)
    \/ \E holding_id \in HoldingIds, holding_update \in HoldingUpdates :
           UpdateHolding(holding_id, holding_update)
    \/ \E holding_id \in HoldingIds : DeleteHolding(holding_id)
    \/ \E holding_id \in HoldingIds : DeleteHoldingRequest(holding_id)

SpecHoldings == InitHoldings /\ [][NextHoldings]_vars

(* Properties of HoldingService *)

\* the total of a portfolio in hundredths
Hundredth(rows, p) == rows.portfolios[p].total_invested[1]

\* the call made by the step, and whether it found the rows it needs
Made(fn) == args'.function = fn
CreateFinds == /\ args'.portfolio_id \in DOMAIN db.portfolios
               /\ args'.holding.security_id \in DOMAIN db.securities

\* purchase_price * quantity * face_value / 100 in hundredths, as the
\* fraction <<numerator, denominator>>
AmountOf(p, q, f) == <<p[1] * q[1] * f[1], p[2] * q[2] * f[2]>>
ExactAmount(h) ==
    AmountOf(h.purchase_price, h.quantity, db.securities[h.security_id].face_value)

\* the whole number nearest to the fraction a
NearestTo1(a) == (2 * a[1] + a[2]) \div (2 * a[2])

\* the rows of a create_holding that fails, and of the calls that are no
\* create_holding
FailedCreate == /\ result'.tag = "None"
                /\ db' = db
OtherCalls == {"update_holding", "delete_holding", "DELETE /holdings",
               "get_holding", "list_holdings"}
TotalsKept == db'.portfolios = db.portfolios
NeverLess == \A p \in DOMAIN db.portfolios : Hundredth(db', p) >= Hundredth(db, p)

\* a create_holding that finds its rows adds one holding and leaves the
\* totals of the other portfolios alone
CreatedOne ==
    /\ result'.tag = "value"
    /\ Len(db'.holdings) = Len(db.holdings) + 1
    /\ \A p \in DOMAIN db.portfolios \ {args'.portfolio_id} :
           Hundredth(db', p) = Hundredth(db, p)

AddsExactly(a) ==
    Hundredth(db', args'.portfolio_id) * a[2] = Hundredth(db, args'.portfolio_id) * a[2] + a[1]
AddsNearest(a) ==
    Hundredth(db', args'.portfolio_id) = Hundredth(db, args'.portfolio_id) + NearestTo1(a)

\* C27: over any sequence of create_holding, update_holding and
\* delete_holding, the total_invested of a portfolio is changed only by a
\* create_holding that finds its portfolio and its security, which adds
\* purchase_price * quantity * face_value / 100 rounded to the nearest
\* hundredth, the two decimals of the column; a create_holding whose
\* portfolio or security does not exist returns None, adds no holding and
\* changes no total; every other call leaves the totals unchanged, so that
\* no total ever decreases.
C27_TotalInvested ==
    [][ /\ (Made("create_holding") /\ CreateFinds) =>
               (CreatedOne /\ AddsNearest(ExactAmount(args'.holding)))
        /\ (Made("create_holding") /\ ~CreateFinds) => FailedCreate
        /\ args'.function \in OtherCalls => TotalsKept
        /\ NeverLess ]_vars

\* the statement with the amount added taken exactly
C27_AddsExactAmount ==
    [][ /\ (Made("create_holding") /\ CreateFinds) =>
               (CreatedOne /\ AddsExactly(ExactAmount(args'.holding)))
        /\ (Made("create_holding") /\ ~CreateFinds) => FailedCreate
        /\ args'.function \in OtherCalls => TotalsKept
        /\ NeverLess ]_vars

\* a holding of 0.0001 units was created, updated to 20 units and deleted,
\* and the total of its portfolio is the 0.01 that its creation added
C27_Witness ==
    /\ pc = "service"
    /\ args.function = "delete_holding"
    /\ Len(db.holdings) = 1
    /\ db.holdings[1].quantity = Dec(20)
    /\ db.holdings[1].current_holding = FALSE
    /\ db.portfolios[db.holdings[1].portfolio_id].total_invested = <<1, 100>>

\* the rows that a call of list_holdings returned
ReturnedRow(h) == \E i \in 1..Len(result'.v) : result'.v[i] = h

\* the holding deleted is kept with current_holding False, get_holding
\* returns it, and list_holdings returns it unless current_only is set
SoftDeleted(id) ==
    /\ Len(db'.holdings) = Len(db.holdings)
    /\ db'.holdings[id] = [db.holdings[id] EXCEPT !.current_holding = FALSE]
    /\ \A i \in DOMAIN db.holdings \ {id} : db'.holdings[i] = db.holdings[i]
    /\ TotalsKept
    /\ db.holdings[id].current_holding = FALSE => db' = db
    /\ get_holding(db', id)[2] = Value(db'.holdings[id])
    /\ \A i \in 1..Len(list_holdings(db', db.holdings[id].portfolio_id, TRUE)[2].v) :
           list_holdings(db', db.holdings[id].portfolio_id, TRUE)[2].v[i].id # id
    /\ \E i \in 1..Len(list_holdings(db', db.holdings[id].portfolio_id, FALSE)[2].v) :
           list_holdings(db', db.holdings[id].portfolio_id, FALSE)[2].v[i].id = id

DeleteAnswers(id) ==
    IF id \in DOMAIN db.holdings
    THEN /\ SoftDeleted(id)
         /\ IF Made("delete_holding") THEN result'.v = TRUE ELSE result'.tag = "None"
    ELSE /\ db' = db
         /\ IF Made("delete_holding") THEN result'.v = FALSE ELSE result'.tag = "raise"

\* what the reads return of the holdings that are not current
ReadsOf(rows) ==
    /\ Made("get_holding") /\ args'.holding_id \in DOMAIN rows.holdings =>
           result' = Value(rows.holdings[args'.holding_id])
    /\ Made("list_holdings") =>
           \A i \in DOMAIN rows.holdings :
               (rows.holdings[i].portfolio_id = args'.portfolio_id
                /\ rows.holdings[i].current_holding = FALSE) =>
                   (ReturnedRow(rows.holdings[i]) <=> ~args'.current_only)

\* no call takes a holding away or gives it another id
HoldingsStay ==
    /\ Len(db'.holdings) >= Len(db.holdings)
    /\ \A i \in DOMAIN db'.holdings : db'.holdings[i].id = i

\* C28: delete_holding is a soft delete: after it succeeds the holding
\* still exists with current_holding False, get_holding still returns it,
\* list_holdings with current_only no longer returns it and without
\* current_only does, a repeated delete_holding of the same id returns True
\* again and leaves the rows unchanged, and it returns False only for an id
\* that was never created (the endpoint then answers 404).
C28_SoftDelete ==
    [][ /\ (Made("delete_holding") \/ Made("DELETE /holdings")) =>
               DeleteAnswers(args'.holding_id)
        /\ ReadsOf(db)
        /\ HoldingsStay ]_vars

\* get_holding returns a holding that is no longer current, the table being full
C28_Witness ==
    /\ pc = "service"
    /\ args.function = "get_holding"
    /\ result.tag = "value"
    /\ result.v.current_holding = FALSE
    /\ result.v.quantity = Dec(1)
    /\ Len(db.holdings) = MaxHoldings

====
